---- MODULE Spec2Model ----
(***************************************************************************)
(* A model of xwin's splat.rs: the preparation of the crt/ and sdk/ roots  *)
(* (prep_splat), the placement of unpacked CRT/SDK payloads into them      *)
(* (splat) and the include-repair pass over the placed SDK headers         *)
(* (finalize_splat).                                                       *)
(*                                                                         *)
(* Specifications: Spec (one splat call), SpecHeaders (two header payloads *)
(* and the finalize pass), SpecRun (every resolver layout, failing         *)
(* operations, include targets that are no text), SpecPair (two library    *)
(* payloads at once), SpecTwice (prep_splat over prior contents and a      *)
(* second run), SpecInclude (header payloads with subdirectories next to a *)
(* Ucrt payload, and the finalize pass).                                   *)
(*                                                                         *)
(* File and directory names are sequences of character codes, so that the  *)
(* string operations of the code (ends_with, strip_suffix,                 *)
(* to_ascii_lowercase, the bytes fed to the hasher) are computed as the    *)
(* code computes them. Paths are sequences of names. Destination paths are *)
(* relative to config.output, source paths to roots.src.                   *)
(***************************************************************************)
EXTENDS Integers, Sequences, FiniteSets, TLC

(***************************************************************************)
(* Names used by the code (string literals of splat.rs) and by the inputs. *)
(***************************************************************************)
\* "crt"
N_crt == <<99, 114, 116>>
\* "sdk"
N_sdk == <<115, 100, 107>>
\* "include"
N_include == <<105, 110, 99, 108, 117, 100, 101>>
\* "lib"
N_lib == <<108, 105, 98>>
\* "spectre"
N_spectre == <<115, 112, 101, 99, 116, 114, 101>>
\* "onecore"
N_onecore == <<111, 110, 101, 99, 111, 114, 101>>
\* "um"
N_um == <<117, 109>>
\* "ucrt"
N_ucrt == <<117, 99, 114, 116>>
\* "shared"
N_shared == <<115, 104, 97, 114, 101, 100>>
\* "gl"
N_gl == <<103, 108>>
\* "GL"
N_GL == <<71, 76>>
\* "x86"
N_x86 == <<120, 56, 54>>
\* "x64"
N_x64 == <<120, 54, 52>>
\* "x86_64"
N_x86_64 == <<120, 56, 54, 95, 54, 52>>
\* "store"
N_store == <<115, 116, 111, 114, 101>>
\* "uwp"
N_uwp == <<117, 119, 112>>
\* "p1"
N_p1 == <<112, 49>>
\* "p2"
N_p2 == <<112, 50>>
\* "Windows.h"
N_Windows_h == <<87, 105, 110, 100, 111, 119, 115, 46, 104>>
\* "windows.h"
N_windows_h == <<119, 105, 110, 100, 111, 119, 115, 46, 104>>
\* "Foo.H"
N_Foo_H == <<70, 111, 111, 46, 72>>
\* "foo.h"
N_foo_h == <<102, 111, 111, 46, 104>>
\* "nonexistent.h"
N_nonexistent_h == <<110, 111, 110, 101, 120, 105, 115, 116, 101, 110, 116, 46, 104>>
\* "sub/Foo.H"
N_sub_Foo_H == <<115, 117, 98, 47, 70, 111, 111, 46, 72>>
\* "stdio.h"
N_stdio_h == <<115, 116, 100, 105, 111, 46, 104>>
\* "libcmt.lib"
N_libcmt_lib == <<108, 105, 98, 99, 109, 116, 46, 108, 105, 98>>
\* "Libcmt.lib"
N_Libcmt_lib == <<76, 105, 98, 99, 109, 116, 46, 108, 105, 98>>
\* "LIBCMT.lib"
N_LIBCMT_lib == <<76, 73, 66, 67, 77, 84, 46, 108, 105, 98>>
\* "msvcrt.lib"
N_msvcrt_lib == <<109, 115, 118, 99, 114, 116, 46, 108, 105, 98>>
\* "MSVCRT.lib"
N_MSVCRT_lib == <<77, 83, 86, 67, 82, 84, 46, 108, 105, 98>>
\* "oldnames.lib"
N_oldnames_lib == <<111, 108, 100, 110, 97, 109, 101, 115, 46, 108, 105, 98>>
\* "OLDNAMES.lib"
N_OLDNAMES_lib == <<79, 76, 68, 78, 65, 77, 69, 83, 46, 108, 105, 98>>
\* "msvcrtd.lib"
N_msvcrtd_lib == <<109, 115, 118, 99, 114, 116, 100, 46, 108, 105, 98>>
\* "vcruntime140d.pdb"
N_vcruntime140d_pdb == <<118, 99, 114, 117, 110, 116, 105, 109, 101, 49, 52, 48, 100, 46, 112, 100, 98>>
\* "libcpmtd1.lib"
N_libcpmtd1_lib == <<108, 105, 98, 99, 112, 109, 116, 100, 49, 46, 108, 105, 98>>
\* "msvcd140.lib"
N_msvcd140_lib == <<109, 115, 118, 99, 100, 49, 52, 48, 46, 108, 105, 98>>
\* "ucrtd_netcore.lib"
N_ucrtd_netcore_lib == <<117, 99, 114, 116, 100, 95, 110, 101, 116, 99, 111, 114, 101, 46, 108, 105, 98>>
\* "Kernel32.Lib"
N_Kernel32_Lib == <<75, 101, 114, 110, 101, 108, 51, 50, 46, 76, 105, 98>>
\* "kernel32.lib"
N_kernel32_lib == <<107, 101, 114, 110, 101, 108, 51, 50, 46, 108, 105, 98>>
\* "ws2_32.Lib"
N_ws2_32_Lib == <<119, 115, 50, 95, 51, 50, 46, 76, 105, 98>>
\* "sub/Windows.h"
N_sub_Windows_h == <<115, 117, 98, 47, 87, 105, 110, 100, 111, 119, 115, 46, 104>>
\* "caf\xE9.h": a name in Latin-1, no valid UTF-8
N_cafe_latin1_h == <<99, 97, 102, 233, 46, 104>>
\* "Sub": a header without extension
N_Sub == <<83, 117, 98>>
\* "sub"
N_sub == <<115, 117, 98>>
\* "Stdio.h"
N_Stdio_h == <<83, 116, 100, 105, 111, 46, 104>>
\* "uuid.lib"
N_uuid_lib == <<117, 117, 105, 100, 46, 108, 105, 98>>
\* ".lib"
N__lib == <<46, 108, 105, 98>>
\* ".pdb"
N__pdb == <<46, 112, 100, 98>>
\* "d"
N_d == <<100>>
\* "d_netcore"
N_d_netcore == <<100, 95, 110, 101, 116, 99, 111, 114, 101>>
\* ".unpack"
N__unpack == <<46, 117, 110, 112, 97, 99, 107>>
\* "libcmt"
N_libcmt == <<108, 105, 98, 99, 109, 116>>
\* "msvcrt"
N_msvcrt == <<109, 115, 118, 99, 114, 116>>
\* "oldnames"
N_oldnames == <<111, 108, 100, 110, 97, 109, 101, 115>>

(***************************************************************************)
(* Bounds of the model.                                                    *)
(***************************************************************************)
\* the most file entries of one generated directory
MaxFiles == 2
\* file sizes are drawn from 1..MaxSize
MaxSize == 2

(***************************************************************************)
(* String operations of the Rust standard library, on character codes.     *)
(***************************************************************************)
\* str::ends_with
EndsWith(s, suf) ==
    /\ Len(s) >= Len(suf)
    /\ SubSeq(s, Len(s) - Len(suf) + 1, Len(s)) = suf

\* str::strip_suffix, for a string that ends with suf (Some(..)); the None
\* case is the caller's EndsWith test
StripSuffix(s, suf) == SubSeq(s, 1, Len(s) - Len(suf))

\* char::is_digit(10)
IsDigit(c) == c >= 48 /\ c <= 57

\* char::is_ascii_uppercase
IsAsciiUppercase(c) == c >= 65 /\ c <= 90

\* char::to_ascii_lowercase
CharToAsciiLowercase(c) == IF IsAsciiUppercase(c) THEN c + 32 ELSE c

\* str::to_ascii_lowercase
to_ascii_lowercase(s) == [i \in 1..Len(s) |-> CharToAsciiLowercase(s[i])]

\* fnamestr.contains(|c: char| c.is_ascii_uppercase())
ContainsUppercase(s) == \E i \in 1..Len(s) : IsAsciiUppercase(s[i])

\* name.rfind('/'): the greatest index holding '/', 0 for None
RFindSlash(s) ==
    IF \E i \in 1..Len(s) : s[i] = 47
    THEN CHOOSE i \in 1..Len(s) : s[i] = 47 /\ \A j \in (i+1)..Len(s) : s[j] # 47
    ELSE 0

\* the final path component of an include target (splat.rs 481-484)
IncludeBasename(name) ==
    IF RFindSlash(name) # 0 THEN SubSeq(name, RFindSlash(name) + 1, Len(name)) ELSE name

\* calc_lower_hash: the bytes written to the hasher are the lowercased
\* characters cast to u8. XxHash64 is taken to be injective on the byte
\* strings of the model, so the key is the byte string itself.
calc_lower_hash(path) == [i \in 1..Len(path) |-> CharToAsciiLowercase(path[i]) % 256]

(***************************************************************************)
(* Paths.                                                                  *)
(***************************************************************************)
\* PathBuf::join / push of one component
Join(p, name) == Append(p, name)

\* PathBuf::pop / parent
Parent(p) == SubSeq(p, 1, Len(p) - 1)

\* Path::file_name
FileName(p) == p[Len(p)]

\* a path and all its ancestors (the empty path, the output root, excluded)
Ancestors(p) == { SubSeq(p, 1, k) : k \in 1..Len(p) }

\* Path::strip_prefix: is pre a prefix of p
HasPrefix(p, pre) == Len(p) >= Len(pre) /\ SubSeq(p, 1, Len(pre)) = pre

(***************************************************************************)
(* FileTree (crate::unpack, consumed read-only):                           *)
(*   [files : Seq([name, size]), dirs : Seq([name, tree])]                 *)
(***************************************************************************)
Tree(files, dirs) == [files |-> files, dirs |-> dirs]
File(name, size) == [name |-> name, size |-> size]
Dir(name, tree) == [name |-> name, tree |-> tree]
NoTree == [files |-> <<>>, dirs |-> <<>>]

RECURSIVE SumSizes(_)
SumSizes(files) ==
    IF files = <<>> THEN 0 ELSE Head(files).size + SumSizes(Tail(files))

\* FileTree::stats().1: the total bytes of all files of the tree
RECURSIVE StatsBytes(_)
RECURSIVE SumDirStats(_)
SumDirStats(dirs) ==
    IF dirs = <<>> THEN 0 ELSE StatsBytes(Head(dirs).tree) + SumDirStats(Tail(dirs))
StatsBytes(tree) == SumSizes(tree.files) + SumDirStats(tree.dirs)

\* FileTree::subtree(path): [found, tree]
RECURSIVE Subtree(_, _)
Subtree(tree, path) ==
    IF path = <<>> THEN [found |-> TRUE, tree |-> tree]
    ELSE IF \E k \in 1..Len(tree.dirs) : tree.dirs[k].name = Head(path)
         THEN LET k == CHOOSE k \in 1..Len(tree.dirs) : tree.dirs[k].name = Head(path)
              IN  Subtree(tree.dirs[k].tree, Tail(path))
         ELSE [found |-> FALSE, tree |-> NoTree]

(***************************************************************************)
(* The destination filesystem: a function from path to entry. A file entry *)
(* remembers the source file its content came from.                        *)
(***************************************************************************)
DirEntry == [t |-> "dir", from |-> <<>>, to |-> <<>>]
FileEntry(src) == [t |-> "file", from |-> src, to |-> <<>>]
LinkEntry(original) == [t |-> "link", from |-> <<>>, to |-> original]

IsDir(f, p) == p \in DOMAIN f /\ f[p].t = "dir"
IsFile(f, p) == p \in DOMAIN f /\ f[p].t = "file"
IsLink(f, p) == p \in DOMAIN f /\ f[p].t = "link"

Put(f, p, e) == [q \in DOMAIN f \cup {p} |-> IF q = p THEN e ELSE f[q]]

\* std::fs::create_dir_all: fails when an ancestor exists and is no directory
CreateDirAllOk(f, p) == \A a \in Ancestors(p) : a \in DOMAIN f => f[a].t = "dir"
CreateDirAll(f, p) ==
    [q \in DOMAIN f \cup Ancestors(p) |-> IF q \in DOMAIN f THEN f[q] ELSE DirEntry]

\* the file a write to p lands in: a symlink at p is followed (its target is
\* a sibling name, as all symlinks created by splat.rs are)
WriteTarget(f, p) == IF IsLink(f, p) THEN Join(Parent(p), f[p].to) ELSE p

\* std::fs::copy(src, tar): the source must exist, the destination is opened
\* for writing (created or truncated, following a symlink)
CopyOk(f, gone, src, tar) ==
    /\ src \notin gone
    /\ IsDir(f, Parent(tar))
    /\ WriteTarget(f, tar) \notin DOMAIN f \/ IsFile(f, WriteTarget(f, tar))
Copy(f, src, tar) == Put(f, WriteTarget(f, tar), FileEntry(src))

\* std::fs::rename(src, tar): replaces whatever non-directory is at tar
RenameOk(f, gone, src, tar) ==
    /\ src \notin gone
    /\ IsDir(f, Parent(tar))
    /\ ~IsDir(f, tar)
Rename(f, src, tar) == Put(f, tar, FileEntry(src))

\* std::os::unix::fs::symlink(original, link): fails when link exists
SymlinkOk(f, link) == link \notin DOMAIN f /\ IsDir(f, Parent(link))
Symlink(f, original, link) == Put(f, link, LinkEntry(original))

(***************************************************************************)
(* The per-file decisions of splat.                                        *)
(***************************************************************************)
\* mutant: the .pdb test forgets the flag
SkipPdb_IgnoresFlag(include_debug_symbols, fname) == EndsWith(fname, N__pdb)

\* splat.rs 293: a .pdb is skipped unless include_debug_symbols
SkipPdb(include_debug_symbols, fname) ==
    ~include_debug_symbols /\ EndsWith(fname, N__pdb)

\* all trailing decimal digits of a name removed
RECURSIVE StripDigits(_)
StripDigits(name) ==
    IF Len(name) > 0 /\ IsDigit(name[Len(name)])
    THEN StripDigits(SubSeq(name, 1, Len(name) - 1))
    ELSE name

\* mutant: every trailing digit is stripped before the test for d
SkipDebugLib_AllDigits(include_debug_libs, fname) ==
    /\ ~include_debug_libs
    /\ EndsWith(fname, N__lib)
    /\ LET stripped == StripSuffix(fname, N__lib)
       IN  \/ EndsWith(stripped, N_d_netcore)
           \/ EndsWith(StripDigits(stripped), N_d)

\* mutant: the d_netcore suffix is forgotten
SkipDebugLib_NoNetcore(include_debug_libs, fname) ==
    /\ ~include_debug_libs
    /\ EndsWith(fname, N__lib)
    /\ LET stripped == StripSuffix(fname, N__lib)
       IN  \/ EndsWith(stripped, N_d)
           \/ /\ Len(stripped) > 0
              /\ IsDigit(stripped[Len(stripped)])
              /\ EndsWith(SubSeq(stripped, 1, Len(stripped) - 1), N_d)

\* splat.rs 298-310: a debug library is skipped unless include_debug_libs
SkipDebugLib(include_debug_libs, fname) ==
    /\ ~include_debug_libs
    /\ EndsWith(fname, N__lib)
    /\ LET stripped == StripSuffix(fname, N__lib)
       IN  \/ EndsWith(stripped, N_d)
           \/ EndsWith(stripped, N_d_netcore)
           \/ /\ Len(stripped) > 0
              /\ IsDigit(stripped[Len(stripped)])
              /\ EndsWith(SubSeq(stripped, 1, Len(stripped) - 1), N_d)

\* splat.rs 292-311: does the filter `continue` past this file
FilterSkips(kind, cfg, fname) ==
    /\ kind = "CrtLibs" \/ kind = "Ucrt"
    /\ \/ SkipPdb(cfg.include_debug_symbols, fname)
       \/ SkipDebugLib(cfg.include_debug_libs, fname)

\* mutant: the membership test is left out of the critical section
GateWrite_NoCheck(registry, name_hash) == TRUE

\* splat.rs 321: under the lock, is the key new
GateWrite(registry, name_hash) == name_hash \notin DOMAIN registry

\* mutant: the base name is matched whatever its casing
angry_lib_AnyCase(fname) ==
    IF ~EndsWith(fname, N__lib) THEN <<>>
    ELSE LET base == to_ascii_lowercase(StripSuffix(fname, N__lib))
         IN  IF base = N_libcmt THEN N_LIBCMT_lib
             ELSE IF base = N_msvcrt THEN N_MSVCRT_lib
             ELSE IF base = N_oldnames THEN N_OLDNAMES_lib
             ELSE <<>>

\* splat.rs 355-360: the upper-case name to link, <<>> for None
angry_lib(fname) ==
    IF ~EndsWith(fname, N__lib) THEN <<>>
    ELSE LET base == StripSuffix(fname, N__lib)
         IN  IF base = N_libcmt THEN N_LIBCMT_lib
             ELSE IF base = N_msvcrt THEN N_MSVCRT_lib
             ELSE IF base = N_oldnames THEN N_OLDNAMES_lib
             ELSE <<>>

\* mutant: the test for an upper-case character looks at the first one only
sdk_lib_link_FirstChar(fname) ==
    IF fname # <<>> /\ IsAsciiUppercase(fname[1]) THEN to_ascii_lowercase(fname) ELSE <<>>

\* splat.rs 383-387: the name the SDK lib symlink is created at, <<>> for none
sdk_lib_link(fname) ==
    IF ContainsUppercase(fname) THEN to_ascii_lowercase(fname) ELSE <<>>

\* splat.rs 344-390: the symlink the match on the kind creates after a
\* transfer to tar: [link, original], link = <<>> when the arm creates none
RepairLink(kind, fname, tar) ==
    LET name == CASE kind = "CrtLibs" -> angry_lib(fname)
                  [] kind \in {"SdkLibs", "SdkStoreLibs"} -> sdk_lib_link(fname)
                  [] OTHER -> <<>>
    IN  IF name = <<>> THEN [link |-> <<>>, original |-> fname]
        ELSE [link |-> Join(Parent(tar), name), original |-> fname]

\* mutant: the test of the requested variants is inverted
PruneSubdirs_Inverted(kind, variant, variants) ==
    kind = "CrtLibs" /\ variant = "Store" /\ "Store" \in variants

\* splat.rs 400-402: are this directory's subdirectories left out
PruneSubdirs(kind, variant, variants) ==
    kind = "CrtLibs" /\ variant = "Store" /\ "Store" \notin variants

(***************************************************************************)
(* The mapping resolver (splat.rs 71-255).                                 *)
(***************************************************************************)
\* Arch::as_ms_str and Arch::as_str (crate::Arch)
as_ms_str(arch) == IF arch = "X86" THEN N_x86 ELSE N_x64
as_str(arch) == IF arch = "X86" THEN N_x86 ELSE N_x86_64

\* Arch::iter(arches): the requested architectures in the order of their bits
ArchIter(arches) ==
    (IF "X86" \in arches THEN <<"X86">> ELSE <<>>)
        \o (IF "X86_64" \in arches THEN <<"X86_64">> ELSE <<>>)

\* splat.rs 146-150, 183-187, 210-214, 242-246: the destination segment
ArchTarget(cfg, arch) ==
    IF cfg.preserve_ms_arch_notation THEN as_ms_str(arch) ELSE as_str(arch)

\* splat.rs 86-96
get_tree(item, src) == Subtree(item.tree, Tail(src))

Mapping(src, target, tree, kind, variant) ==
    [src |-> src, target |-> target, tree |-> tree, kind |-> kind, variant |-> variant]

Resolved(maps) == [err |-> "none", maps |-> maps]
Failed(why) == [err |-> why, maps |-> <<>>]

\* one mapping src -> target of the payload's kind and variant
OneMapping(item, src, target) ==
    IF get_tree(item, src).found
    THEN Resolved(<<Mapping(src, target, get_tree(item, src).tree,
                            item.payload.kind, item.payload.variant)>>)
    ELSE Failed("missing expected subtree")

\* mutant: the Store variant gets the spectre segment too
CrtLibsVariantPath_StoreSpectre(variant, variants) ==
    LET spectre == IF "Spectre" \in variants THEN <<N_spectre>> ELSE <<>>
    IN  IF variant = "OneCore" THEN spectre \o <<N_onecore>> ELSE spectre

\* splat.rs 115-139: the segments pushed on src and target alike
CrtLibsVariantPath(variant, variants) ==
    LET spectre == IF "Spectre" \in variants THEN <<N_spectre>> ELSE <<>>
    IN  CASE variant = "Desktop" -> spectre
          [] variant = "OneCore" -> spectre \o <<N_onecore>>
          [] OTHER -> <<>>

\* mutant: an architecture whose subtree is missing is left out
FanOut_SkipMissing(cfg, item, src, target, arches) ==
    LET as == SelectSeq(ArchIter(arches),
                        LAMBDA a : get_tree(item, Join(src, as_ms_str(a))).found)
    IN  Resolved([k \in 1..Len(as) |->
            Mapping(Join(src, as_ms_str(as[k])),
                    Join(target, ArchTarget(cfg, as[k])),
                    get_tree(item, Join(src, as_ms_str(as[k]))).tree,
                    item.payload.kind, item.payload.variant)])

\* splat.rs 203-220, 236-251: one mapping per requested architecture
FanOut(cfg, item, src, target, arches) ==
    LET as == ArchIter(arches)
    IN  IF \A k \in 1..Len(as) : get_tree(item, Join(src, as_ms_str(as[k]))).found
        THEN Resolved([k \in 1..Len(as) |->
                 Mapping(Join(src, as_ms_str(as[k])),
                         Join(target, ArchTarget(cfg, as[k])),
                         get_tree(item, Join(src, as_ms_str(as[k]))).tree,
                         item.payload.kind, item.payload.variant)])
        ELSE Failed("missing expected subtree")

\* splat.rs 98-255: the mappings of one work item, or the error splat returns
ResolveMappings(cfg, item, arches, variants) ==
    LET p == item.payload
        src == <<p.filename>>
    IN  CASE p.kind = "CrtHeaders" ->
               OneMapping(item, Join(src, N_include), <<N_crt, N_include>>)
          [] p.kind = "CrtLibs" ->
               IF p.variant = "None" THEN Failed("CRT libs didn't specify a variant")
               ELSE IF p.variant = "Spectre" THEN Failed("unreachable")
               ELSE IF p.target_arch = "None"
                    THEN Failed("CRT libs didn't specify an architecture")
               ELSE OneMapping(item,
                        Join(src, N_lib) \o CrtLibsVariantPath(p.variant, variants)
                            \o <<as_ms_str(p.target_arch)>>,
                        <<N_crt, N_lib>> \o CrtLibsVariantPath(p.variant, variants)
                            \o <<ArchTarget(cfg, p.target_arch)>>)
          [] p.kind = "SdkHeaders" ->
               OneMapping(item, Join(src, N_include), <<N_sdk, N_include>>)
          [] p.kind = "SdkLibs" ->
               IF p.target_arch = "None"
               THEN Failed("SDK libs didn't specify an architecture")
               ELSE OneMapping(item,
                        src \o <<N_lib, N_um, as_ms_str(p.target_arch)>>,
                        <<N_sdk, N_lib, N_um, ArchTarget(cfg, p.target_arch)>>)
          [] p.kind = "SdkStoreLibs" ->
               FanOut(cfg, item, src \o <<N_lib, N_um>>, <<N_sdk, N_lib, N_um>>, arches)
          [] OTHER ->
               LET inc == OneMapping(item, src \o <<N_include, N_ucrt>>,
                                     <<N_sdk, N_include, N_ucrt>>)
                   libs == FanOut(cfg, item, src \o <<N_lib, N_ucrt>>,
                                  <<N_sdk, N_lib, N_ucrt>>, arches)
               IN  IF inc.err # "none" THEN inc
                   ELSE IF libs.err # "none" THEN libs
                   ELSE Resolved(inc.maps \o libs.maps)

(***************************************************************************)
(* State.                                                                  *)
(***************************************************************************)
VARIABLES
    config,     \* SplatConfig (fixed during a run)
    arches,     \* the requested architectures (splat's `arches`)
    variants,   \* the requested variants (splat's `variants`)
    items,      \* the work items: [payload, tree]
    contents,   \* staged header file -> the include targets its text holds
    ipc,        \* per item: where its splat call is
    progress,   \* per item: item.progress
    wk,         \* per mapping of a placing item: the state of its rayon task
    sdk_files,  \* the Dedup Registry: name hash -> destination path
    fs,         \* the destination filesystem under config.output
    srcGone,    \* staged files moved away by rename
    markers,    \* items whose .unpack marker still exists
    faulty,     \* destination paths at which the operating system fails an operation
    prep,       \* prep_splat: where it is, whether it has returned the roots
    granted,    \* history: the registry insertions, [w, name, tar]
    xfers,      \* history: the completed transfers, [w, src, tar]
    fin         \* the state of finalize_splat

vars == <<config, arches, variants, items, contents, ipc, progress, wk,
          sdk_files, fs, srcGone, markers, faulty, prep, granted, xfers, fin>>

inputs == <<config, arches, variants, items, contents, faulty>>

\* the operating system carries out an operation on the path (no full disk,
\* no missing permission, no media error there)
IoOk(p) == p \notin faulty

(***************************************************************************)
(* Inputs.                                                                 *)
(***************************************************************************)
Payload(filename, kind, variant, target_arch) ==
    [filename |-> filename, kind |-> kind, variant |-> variant,
     target_arch |-> target_arch]

Item(payload, tree) == [payload |-> payload, tree |-> tree]

Config(dlibs, dsyms, nolinks, msarch, copy) ==
    [include_debug_libs |-> dlibs, include_debug_symbols |-> dsyms,
     disable_symlinks |-> nolinks, preserve_ms_arch_notation |-> msarch,
     copy |-> copy]

\* the file lists of at most MaxFiles entries with names of pool. The staged
\* trees are unpacked from packages built on a case-insensitive filesystem:
\* the names of one directory differ by more than ASCII case.
FileLists(pool, sizes) ==
    UNION { { fl \in [1..n -> { File(nm, sz) : nm \in pool, sz \in sizes }] :
                \A a, b \in 1..n :
                    a # b => to_ascii_lowercase(fl[a].name) # to_ascii_lowercase(fl[b].name) }
            : n \in 0..MaxFiles }

\* a tree holding `leaf` at the end of the directory path
RECURSIVE Wrap(_, _)
Wrap(path, leaf) ==
    IF path = <<>> THEN leaf
    ELSE Tree(<<>>, <<Dir(Head(path), Wrap(Tail(path), leaf))>>)

\* one directory per requested architecture, each holding `leaf`
ArchDirs(as, leaf) == [k \in 1..Len(ArchIter(as)) |-> Dir(as_ms_str(ArchIter(as)[k]), leaf)]

\* where the unpack stage puts the files of a payload
Staged(p, as, vs, leaf, hdrs) ==
    CASE p.kind = "CrtHeaders" -> Wrap(<<N_include>>, leaf)
      [] p.kind = "CrtLibs" ->
           Wrap(<<N_lib>> \o (IF "Spectre" \in vs /\ p.variant # "Store"
                               THEN <<N_spectre>> ELSE <<>>)
                          \o (IF p.variant = "OneCore" THEN <<N_onecore>> ELSE <<>>)
                          \o <<N_x64>>, leaf)
      [] p.kind = "SdkHeaders" -> Wrap(<<N_include>>, leaf)
      [] p.kind = "SdkLibs" -> Wrap(<<N_lib, N_um, N_x64>>, leaf)
      [] p.kind = "SdkStoreLibs" ->
           Wrap(<<N_lib>>, Tree(<<>>, <<Dir(N_um, Tree(<<>>, ArchDirs(as, leaf)))>>))
      [] OTHER ->
           Tree(<<>>, <<Dir(N_include, Tree(<<>>, <<Dir(N_ucrt, hdrs)>>)),
                        Dir(N_lib, Tree(<<>>, <<Dir(N_ucrt, Tree(<<>>, ArchDirs(as, leaf)))>>))>>)

Scenario(cfg, as, vs, its, cont) ==
    [config |-> cfg, arches |-> as, variants |-> vs, items |-> its, contents |-> cont]

NoContents == <<>>

UcrtHeaders == Tree(<<File(N_stdio_h, 1)>>, <<>>)

\* CRT and UCRT library names, retail and debug
DebugNames ==
    {N_msvcrt_lib, N_msvcrtd_lib, N_vcruntime140d_pdb, N_libcpmtd1_lib,
     N_ucrtd_netcore_lib, N_msvcd140_lib}

\* one flat directory of library names under every combination of the two
\* debug flags, for every kind of payload
FilterScenarios ==
    { Scenario(Config(dl, ds, FALSE, FALSE, TRUE), {"X86_64"}, {"Desktop"},
               <<Item(p, Staged(p, {"X86_64"}, {"Desktop"}, Tree(fl, <<>>), UcrtHeaders))>>,
               NoContents) :
        dl \in BOOLEAN, ds \in BOOLEAN,
        p \in { Payload(N_p1, "CrtLibs", "Desktop", "X86_64"),
                Payload(N_p1, "Ucrt", "None", "None"),
                Payload(N_p1, "SdkLibs", "None", "X86_64"),
                Payload(N_p1, "CrtHeaders", "None", "None") },
        fl \in FileLists(DebugNames, {1}) }

(***************************************************************************)
(* splat: one call per work item; one rayon task per mapping.              *)
(***************************************************************************)
Frame(src, tar, tree) == [src |-> src, tar |-> tar, tree |-> tree]

\* splat.rs 276-280: the task of a mapping starts with its root on the stack
Task(m) ==
    [kind |-> m.kind, variant |-> m.variant,
     dir_stack |-> <<Frame(m.src, m.target, m.tree)>>,
     src |-> <<>>, tar |-> <<>>, tree |-> NoTree, idx |-> 0,
     pc |-> "pop", result |-> "running"]

TasksOf(i) == { w \in DOMAIN wk : w[1] = i }

\* splat.rs 264: the summed byte totals of the mappings' subtrees
RECURSIVE TotalLength(_)
TotalLength(maps) ==
    IF maps = <<>> THEN 0 ELSE StatsBytes(Head(maps).tree) + TotalLength(Tail(maps))

\* splat.rs 289: progress.inc(size)
IncFile(pos, size) == pos + size

\* mutant: the bytes of the pruned subdirectories are not counted
IncPruned_Nothing(pos, tree) == pos

\* splat.rs 406-407: the bytes of the subdirectories that are not descended
IncPruned(pos, tree) == pos + SumDirStats(tree.dirs)

\* splat.rs 409-415: the subdirectories of a frame, pushed in order
PushDirs(stack, me) ==
    stack \o [k \in 1..Len(me.tree.dirs) |->
                 Frame(Join(me.src, me.tree.dirs[k].name),
                       Join(me.tar, me.tree.dirs[k].name),
                       me.tree.dirs[k].tree)]

\* mutant: the error of one task cancels the unfinished tasks of its call
Fail_CancelsCall(w, why) ==
    wk' = [v \in DOMAIN wk |->
              IF v[1] = w[1] /\ wk[v].pc # "done"
              THEN [wk[v] EXCEPT !.pc = "failed", !.result = why]
              ELSE wk[v]]

\* the `?` of splat.rs 284, 337, 341, 364, 387: the closure of the task
\* returns the error
Fail(w, why) == wk' = [wk EXCEPT ![w].pc = "failed", ![w].result = why]

NextFile(w) == wk' = [wk EXCEPT ![w].pc = "file", ![w].idx = @ + 1]

\* splat.rs 71-265: the marker is invalidated, the mappings are resolved, the
\* progress is reset and the tasks are created; a resolver error returns
SplatStart(i) ==
    /\ prep.roots
    /\ ipc[i] = "start"
    /\ markers' = IF config.copy THEN markers ELSE markers \ {i}
    /\ LET r == ResolveMappings(config, items[i], arches, variants)
       IN  IF r.err # "none"
           THEN /\ ipc' = [ipc EXCEPT ![i] = "error"]
                /\ UNCHANGED <<progress, wk>>
           ELSE /\ ipc' = [ipc EXCEPT ![i] = "placing"]
                /\ progress' = [progress EXCEPT ![i] =
                       [length |-> TotalLength(r.maps), pos |-> 0, finished |-> FALSE]]
                /\ wk' = [w \in DOMAIN wk \cup { <<i, k>> : k \in 1..Len(r.maps) } |->
                             IF w \in DOMAIN wk THEN wk[w] ELSE Task(r.maps[w[2]])]
    /\ UNCHANGED <<inputs, prep, sdk_files, fs, srcGone, granted, xfers, fin>>

\* splat.rs 282-284: the next directory is popped and created; the task ends
\* with Ok(()) when the stack is empty
PopDir(w) ==
    /\ wk[w].pc = "pop"
    /\ IF wk[w].dir_stack = <<>>
       THEN /\ wk' = [wk EXCEPT ![w].pc = "done", ![w].result = "ok"]
            /\ UNCHANGED fs
       ELSE LET d == wk[w].dir_stack[Len(wk[w].dir_stack)]
            IN  IF CreateDirAllOk(fs, d.tar) /\ IoOk(d.tar)
                THEN /\ fs' = CreateDirAll(fs, d.tar)
                     /\ wk' = [wk EXCEPT ![w].dir_stack = SubSeq(@, 1, Len(@) - 1),
                                         ![w].src = d.src, ![w].tar = d.tar,
                                         ![w].tree = d.tree, ![w].idx = 1,
                                         ![w].pc = "file"]
                ELSE /\ Fail(w, "unable to create")
                     /\ UNCHANGED fs
    /\ UNCHANGED <<inputs, prep, ipc, progress, sdk_files, srcGone, markers, granted, xfers, fin>>

\* splat.rs 286-329: the progress advances, the debug filter and the dedup
\* gate decide whether the file is written; the membership test and the
\* insert happen under one lock
VisitFile(w) ==
    /\ wk[w].pc = "file"
    /\ wk[w].idx <= Len(wk[w].tree.files)
    /\ LET me == wk[w]
           f == me.tree.files[me.idx]
           tar == Join(me.tar, f.name)
           name_hash == calc_lower_hash(f.name)
           gated == me.kind = "SdkHeaders"
       IN  /\ progress' = [progress EXCEPT ![w[1]].pos = IncFile(@, f.size)]
           /\ IF FilterSkips(me.kind, config, f.name)
              THEN /\ NextFile(w)
                   /\ UNCHANGED <<sdk_files, granted>>
              ELSE IF ~gated
              THEN /\ wk' = [wk EXCEPT ![w].pc = "transfer"]
                   /\ UNCHANGED <<sdk_files, granted>>
              ELSE IF GateWrite(sdk_files, name_hash)
              THEN /\ sdk_files' = Put(sdk_files, name_hash, tar)
                   /\ granted' = granted \cup {[w |-> w, name |-> f.name, tar |-> tar]}
                   /\ wk' = [wk EXCEPT ![w].pc = "transfer"]
              ELSE /\ NextFile(w)
                   /\ UNCHANGED <<sdk_files, granted>>
    /\ UNCHANGED <<inputs, prep, ipc, fs, srcGone, markers, xfers, fin>>

\* splat.rs 331-342: the file is copied or moved to the destination
Transfer(w) ==
    /\ wk[w].pc = "transfer"
    /\ LET me == wk[w]
           f == me.tree.files[me.idx]
           src_path == Join(me.src, f.name)
           tar == Join(me.tar, f.name)
       IN  IF config.copy
           THEN IF CopyOk(fs, srcGone, src_path, tar) /\ IoOk(tar)
                THEN /\ fs' = Copy(fs, src_path, tar)
                     /\ xfers' = xfers \cup {[w |-> w, src |-> src_path, tar |-> tar]}
                     /\ wk' = [wk EXCEPT ![w].pc = "repair"]
                     /\ UNCHANGED srcGone
                ELSE /\ Fail(w, "failed to copy")
                     /\ UNCHANGED <<fs, xfers, srcGone>>
           ELSE IF RenameOk(fs, srcGone, src_path, tar) /\ IoOk(tar)
                THEN /\ fs' = Rename(fs, src_path, tar)
                     /\ srcGone' = srcGone \cup {src_path}
                     /\ xfers' = xfers \cup {[w |-> w, src |-> src_path, tar |-> tar]}
                     /\ wk' = [wk EXCEPT ![w].pc = "repair"]
                ELSE /\ Fail(w, "failed to move")
                     /\ UNCHANGED <<fs, xfers, srcGone>>
    /\ UNCHANGED <<inputs, prep, ipc, progress, sdk_files, markers, granted, fin>>

\* splat.rs 344-393: the match on the kind, which creates the casing symlink
\* of a CRT or SDK library
Repair(w) ==
    /\ wk[w].pc = "repair"
    /\ LET me == wk[w]
           f == me.tree.files[me.idx]
           r == RepairLink(me.kind, f.name, Join(me.tar, f.name))
       IN  IF r.link = <<>>
           THEN /\ NextFile(w)
                /\ UNCHANGED fs
           ELSE IF SymlinkOk(fs, r.link) /\ IoOk(r.link)
           THEN /\ fs' = Symlink(fs, r.original, r.link)
                /\ NextFile(w)
           ELSE /\ Fail(w, "unable to symlink")
                /\ UNCHANGED fs
    /\ UNCHANGED <<inputs, prep, ipc, progress, sdk_files, srcGone, markers, granted, xfers, fin>>

\* splat.rs 396-416: after the files of a directory, its subdirectories are
\* pushed, or counted and left out for unrequested Store CRT libs
Descend(w) ==
    /\ wk[w].pc = "file"
    /\ wk[w].idx > Len(wk[w].tree.files)
    /\ IF PruneSubdirs(wk[w].kind, wk[w].variant, variants)
       THEN /\ progress' = [progress EXCEPT ![w[1]].pos = IncPruned(@, wk[w].tree)]
            /\ wk' = [wk EXCEPT ![w].pc = "pop"]
       ELSE /\ wk' = [wk EXCEPT ![w].pc = "pop",
                                ![w].dir_stack = PushDirs(@, wk[w])]
            /\ UNCHANGED progress
    /\ UNCHANGED <<inputs, prep, ipc, sdk_files, fs, srcGone, markers, granted, xfers, fin>>

\* splat.rs 421-425: the results of the tasks are collected and dropped, the
\* progress is finished and splat returns Ok(())
SplatEnd(i) ==
    /\ ipc[i] = "placing"
    /\ \A w \in TasksOf(i) : wk[w].pc \in {"done", "failed"}
    /\ progress' = [progress EXCEPT ![i].finished = TRUE]
    /\ ipc' = [ipc EXCEPT ![i] = "ok"]
    /\ UNCHANGED <<inputs, prep, wk, sdk_files, fs, srcGone, markers, granted, xfers, fin>>

(***************************************************************************)
(* One splat call into the roots prep_splat has just created.              *)
(***************************************************************************)
\* prep_splat leaves crt/ and sdk/ existing and empty (splat.rs 40-43)
FreshRoots == [p \in {<<N_crt>>, <<N_sdk>>} |-> DirEntry]

IdleFin == [pc |-> "idle", includes |-> {}, toScan |-> {}, linked |-> {}, error |-> "none"]

InitState(sc, fl, f0, p0) ==
    /\ config = sc.config
    /\ arches = sc.arches
    /\ variants = sc.variants
    /\ items = sc.items
    /\ contents = sc.contents
    /\ ipc = [i \in 1..Len(sc.items) |-> "start"]
    /\ progress = [i \in 1..Len(sc.items) |-> [length |-> 0, pos |-> 0, finished |-> FALSE]]
    /\ wk = <<>>
    /\ sdk_files = <<>>
    /\ fs = f0
    /\ srcGone = {}
    /\ markers = 1..Len(sc.items)
    /\ granted = {}
    /\ xfers = {}
    /\ fin = IdleFin
    /\ faulty = fl
    /\ prep = p0

\* prep_splat has returned Ok(SplatRoots) (splat.rs 47-51)
Prepared == [pc |-> "done", roots |-> TRUE, run |-> 1, first |-> <<>>, error |-> "none"]

\* placement into the roots prep_splat has just returned
InitWith(sc, fl) == InitState(sc, fl, FreshRoots, Prepared)

\* a run in which no operation fails for a reason outside the program
InitFrom(sc) == InitWith(sc, {})

(***************************************************************************)
(* prep_splat (splat.rs 23-52).                                            *)
(***************************************************************************)
\* Path::exists: the path, a symlink followed, is there
Exists(f, p) ==
    /\ p \in DOMAIN f
    /\ IsLink(f, p) => Join(Parent(p), f[p].to) \in DOMAIN f

\* the paths at and below p
Below(f, p) == { q \in DOMAIN f : HasPrefix(q, p) }

Without(f, gone) == [q \in DOMAIN f \ gone |-> f[q]]

\* std::fs::remove_dir_all(p): a symlink is unlinked, a directory is emptied
\* and removed, anything else is refused
RemoveDirAllOk(f, p) ==
    /\ IsDir(f, p) \/ IsLink(f, p)
    /\ IsDir(f, p) => \A q \in Below(f, p) : IoOk(q)
    /\ IsLink(f, p) => IoOk(p)

\* mutant: the directory is left as it is
RemoveDirAll_Nothing(f, p) == f

RemoveDirAll(f, p) == IF IsLink(f, p) THEN Without(f, {p}) ELSE Without(f, Below(f, p))

\* what a failing remove_dir_all may leave: whole entries below p are gone,
\* none of them one that holds the path the removal failed at
PartlyRemoved(f, p) ==
    LET stuck == IF IsDir(f, p) THEN { q \in Below(f, p) : ~IoOk(q) } ELSE {p}
        free == { q \in Below(f, p) : \A b \in stuck : ~HasPrefix(b, q) }
    IN  { Without(f, gone) :
            gone \in { g \in SUBSET free : \A q \in g : Below(f, q) \subseteq g } }

PrepFail(why) == prep' = [prep EXCEPT !.pc = "failed", !.error = why]

\* splat.rs 30-33 and 35-38: an existing root is deleted
PrepRemove(root, at, then) ==
    /\ prep.pc = at
    /\ IF ~Exists(fs, root)
       THEN /\ prep' = [prep EXCEPT !.pc = then]
            /\ UNCHANGED fs
       ELSE IF RemoveDirAllOk(fs, root)
       THEN /\ prep' = [prep EXCEPT !.pc = then]
            /\ fs' = RemoveDirAll(fs, root)
       ELSE /\ PrepFail("unable to delete")
            /\ fs' \in PartlyRemoved(fs, root)
    /\ UNCHANGED <<inputs, ipc, progress, wk, sdk_files, srcGone, markers, granted,
                   xfers, fin>>

\* splat.rs 40-43: a root is created; after the second one the roots are
\* returned (47-51)
PrepCreate(root, at, then) ==
    /\ prep.pc = at
    /\ IF CreateDirAllOk(fs, root) /\ IoOk(root)
       THEN /\ prep' = [prep EXCEPT !.pc = then, !.roots = (then = "done")]
            /\ fs' = CreateDirAll(fs, root)
       ELSE /\ PrepFail("unable to create")
            /\ UNCHANGED fs
    /\ UNCHANGED <<inputs, ipc, progress, wk, sdk_files, srcGone, markers, granted,
                   xfers, fin>>

PrepSplat ==
    \/ PrepRemove(<<N_crt>>, "remove_crt", "remove_sdk")
    \/ PrepRemove(<<N_sdk>>, "remove_sdk", "create_crt")
    \/ PrepCreate(<<N_crt>>, "create_crt", "create_sdk")
    \/ PrepCreate(<<N_sdk>>, "create_sdk", "done")

\* CRT import libraries in the casings a linker may name them by, and SDK
\* libraries in the casings the SDK ships them in
AngryNames ==
    {N_libcmt_lib, N_Libcmt_lib, N_LIBCMT_lib, N_msvcrt_lib, N_oldnames_lib, N_uuid_lib}
SdkLibNames == {N_Kernel32_Lib, N_ws2_32_Lib, N_uuid_lib}

\* one flat directory of libraries whose casing splat repairs, moved or
\* copied, for one or two requested architectures
RepairScenarios ==
    { Scenario(Config(FALSE, FALSE, nl, ms, cp), as, {"Desktop"},
               <<Item(pf[1], Staged(pf[1], as, {"Desktop"}, Tree(pf[2], <<>>), UcrtHeaders))>>,
               NoContents) :
        nl \in BOOLEAN, ms \in BOOLEAN, cp \in BOOLEAN,
        as \in {{"X86_64"}, {"X86", "X86_64"}},
        pf \in ({Payload(N_p1, "CrtLibs", "Desktop", "X86_64")}
                    \X FileLists(AngryNames, {1}))
               \cup ({Payload(N_p1, "SdkLibs", "None", "X86_64"),
                      Payload(N_p1, "SdkStoreLibs", "None", "None")}
                    \X FileLists(SdkLibNames, {1})) }

\* the subdirectory lists of a generated directory: none, one, one nested in
\* another, or two side by side, each holding the files of `sub`
DirShapes(d1, d2, sub) ==
    {<<>>, <<Dir(d1, sub)>>, <<Dir(d1, Tree(sub.files, <<Dir(d2, sub)>>))>>,
     <<Dir(d1, sub), Dir(d2, sub)>>}

DeepTrees(pool, d1, d2) ==
    { Tree(fl, ds) :
        fl \in FileLists(pool, 1..MaxSize),
        ds \in UNION { DirShapes(d1, d2, Tree(<<f>>, <<>>)) :
                         f \in { File(nm, sz) : nm \in pool, sz \in 1..MaxSize } } }

\* directories with subdirectories, for the CRT libraries of every variant
\* under several requested-variant sets, and for SDK headers whose
\* subdirectories repeat a name in another casing
TreeScenarios ==
    { Scenario(Config(dl, FALSE, FALSE, FALSE, TRUE), {"X86_64"}, vs,
               <<Item(Payload(N_p1, "CrtLibs", v, "X86_64"),
                      Staged(Payload(N_p1, "CrtLibs", v, "X86_64"), {"X86_64"}, vs, t,
                             UcrtHeaders))>>,
               NoContents) :
        dl \in BOOLEAN,
        vs \in {{"Desktop"}, {"Desktop", "Store"}, {"Desktop", "Spectre"}},
        v \in {"Desktop", "OneCore", "Store"},
        t \in DeepTrees({N_msvcrt_lib, N_msvcrtd_lib}, N_store, N_uwp) }
    \cup
    { Scenario(Config(FALSE, FALSE, FALSE, FALSE, TRUE), {"X86_64"}, {"Desktop"},
               <<Item(Payload(N_p1, "SdkHeaders", "None", "None"),
                      Staged(Payload(N_p1, "SdkHeaders", "None", "None"), {"X86_64"},
                             {"Desktop"}, t, UcrtHeaders))>>,
               NoContents) :
        t \in DeepTrees({N_Windows_h, N_windows_h}, N_um, N_shared) }

Scenarios == FilterScenarios \cup RepairScenarios \cup TreeScenarios

Init == \E sc \in Scenarios : InitFrom(sc)

Place ==
    \/ \E i \in DOMAIN ipc : SplatStart(i)
    \/ \E w \in DOMAIN wk : PopDir(w)
    \/ \E w \in DOMAIN wk : VisitFile(w)
    \/ \E w \in DOMAIN wk : Transfer(w)
    \/ \E w \in DOMAIN wk : Repair(w)
    \/ \E w \in DOMAIN wk : Descend(w)
    \/ \E i \in DOMAIN ipc : SplatEnd(i)

Next == Place

Spec == Init /\ [][Next]_vars

(***************************************************************************)
(* finalize_splat: the include-repair pass over the registered headers.    *)
(***************************************************************************)
\* the length of the UTF-8 sequence the lead byte b starts, 0 for none
Utf8SeqLen(b) ==
    IF b < 128 THEN 1
    ELSE IF b >= 194 /\ b <= 223 THEN 2
    ELSE IF b >= 224 /\ b <= 239 THEN 3
    ELSE IF b >= 240 /\ b <= 244 THEN 4
    ELSE 0

IsContinuation(b) == b >= 128 /\ b <= 191

\* std::str::from_utf8 succeeds (the second-byte ranges of the E0, ED, F0
\* and F4 leads are not narrowed)
RECURSIVE Utf8Valid(_)
Utf8Valid(bytes) ==
    IF bytes = <<>> THEN TRUE
    ELSE LET n == Utf8SeqLen(Head(bytes))
         IN  /\ n # 0
             /\ Len(bytes) >= n
             /\ \A k \in 2..n : IsContinuation(bytes[k])
             /\ Utf8Valid(SubSeq(bytes, n + 1, Len(bytes)))

\* the code point of the first sequence of valid UTF-8 bytes
Utf8First(bytes) ==
    LET n == Utf8SeqLen(Head(bytes))
    IN  CASE n = 1 -> bytes[1]
          [] n = 2 -> (bytes[1] - 192) * 64 + (bytes[2] - 128)
          [] n = 3 -> (bytes[1] - 224) * 4096 + (bytes[2] - 128) * 64 + (bytes[3] - 128)
          [] OTHER -> (bytes[1] - 240) * 262144 + (bytes[2] - 128) * 4096
                          + (bytes[3] - 128) * 64 + (bytes[4] - 128)

\* the characters of valid UTF-8 bytes
RECURSIVE Utf8Decode(_)
Utf8Decode(bytes) ==
    IF bytes = <<>> THEN <<>>
    ELSE <<Utf8First(bytes)>>
             \o Utf8Decode(SubSeq(bytes, Utf8SeqLen(Head(bytes)) + 1, Len(bytes)))

\* the captures of the include pattern in the text of a staged file
(* The pattern #include\s+(?:"|<)([^">]+)(?:"|>)? is not run: a staged   *)
(* header is given by the sequence of targets it would capture.            *)
CapturesOf(src) == IF src \in DOMAIN contents THEN contents[src] ELSE <<>>

\* std::fs::read(file) succeeds: the path, a symlink followed, is a file
ReadOk(f, file) == IsFile(f, WriteTarget(f, file))

\* the captures read from a registered destination path
ReadCaptures(f, file) == CapturesOf(f[WriteTarget(f, file)].from)

\* splat.rs 447-453: the lower-cased names of the registered files whose name
\* has an upper-case character
SeedIncludes(files) ==
    { to_ascii_lowercase(FileName(files[k])) :
        k \in { h \in DOMAIN files : ContainsUppercase(FileName(files[h])) } }

\* splat.rs 476-488: the basenames of the captures of one file
ScanIncludes(captures) ==
    { IncludeBasename(Utf8Decode(captures[k])) : k \in 1..Len(captures) }

\* mutant: the names are compared without regard to case
NeedsLink_IgnoreCase(fname, include) ==
    to_ascii_lowercase(fname) # to_ascii_lowercase(include)

\* mutant: no capture is refused
ScanFails_Never(captures) == FALSE

\* splat.rs 477-479: some capture of the file is no valid UTF-8
ScanFails(captures) == \E k \in 1..Len(captures) : ~Utf8Valid(captures[k])

\* splat.rs 502: the registered name differs from the referenced one
NeedsLink(fname, include) == fname # include

\* splat.rs 497-516: the symlink one referenced name asks for: [link,
\* original], link = <<>> for none
IncludeLink(files, include) ==
    LET lower_hash == calc_lower_hash(include)
    IN  IF lower_hash \notin DOMAIN files THEN [link |-> <<>>, original |-> <<>>]
        ELSE IF NeedsLink(FileName(files[lower_hash]), include)
        THEN [link |-> Join(Parent(files[lower_hash]), include),
              original |-> FileName(files[lower_hash])]
        ELSE [link |-> <<>>, original |-> <<>>]

\* splat.rs 438-453: the registry is taken over once every splat call has
\* returned; the working set starts with the seeds
FinStart ==
    /\ prep.roots
    /\ fin.pc = "idle"
    /\ \A i \in DOMAIN ipc : ipc[i] \in {"ok", "error"}
    /\ fin' = [fin EXCEPT !.pc = IF DOMAIN sdk_files = {} THEN "link" ELSE "scan",
                          !.includes = SeedIncludes(sdk_files),
                          !.toScan = DOMAIN sdk_files]
    /\ UNCHANGED <<inputs, prep, ipc, progress, wk, sdk_files, fs, srcGone, markers,
                   granted, xfers>>

\* splat.rs 472-492: one registered file is read and scanned (the order of
\* files.values() is the HashMap's)
FinScan ==
    /\ fin.pc = "scan"
    /\ \E h \in fin.toScan :
          IF ~(ReadOk(fs, sdk_files[h]) /\ IoOk(sdk_files[h]))
          THEN fin' = [fin EXCEPT !.pc = "failed", !.error = "unable to read"]
          ELSE IF ScanFails(ReadCaptures(fs, sdk_files[h]))
          THEN fin' = [fin EXCEPT !.pc = "failed", !.error = "non-utf8"]
          ELSE fin' = [fin EXCEPT
                   !.pc = IF fin.toScan = {h} THEN "link" ELSE "scan",
                   !.includes = @ \cup ScanIncludes(ReadCaptures(fs, sdk_files[h])),
                   !.toScan = @ \ {h}]
    /\ UNCHANGED <<inputs, prep, ipc, progress, wk, sdk_files, fs, srcGone, markers,
                   granted, xfers>>

\* splat.rs 496-517: one referenced name is looked up and linked (the order
\* of the HashSet is arbitrary)
FinLink ==
    /\ fin.pc = "link"
    /\ \E include \in fin.includes :
          LET r == IncludeLink(sdk_files, include)
          IN  IF r.link = <<>>
              THEN /\ fin' = [fin EXCEPT !.includes = @ \ {include}]
                   /\ UNCHANGED fs
              ELSE IF SymlinkOk(fs, r.link) /\ IoOk(r.link)
              THEN /\ fs' = Symlink(fs, r.original, r.link)
                   /\ fin' = [fin EXCEPT !.includes = @ \ {include},
                                         !.linked = @ \cup {r.link}]
              ELSE /\ fin' = [fin EXCEPT !.pc = "failed", !.error = "unable to symlink"]
                   /\ UNCHANGED fs
    /\ UNCHANGED <<inputs, prep, ipc, progress, wk, sdk_files, srcGone, markers,
                   granted, xfers>>

\* splat.rs 519-523: the fixed symlink GL -> gl, then Ok(())
FinGL ==
    /\ fin.pc = "link"
    /\ fin.includes = {}
    /\ IF /\ SymlinkOk(fs, <<N_sdk, N_include, N_um, N_GL>>)
          /\ IoOk(<<N_sdk, N_include, N_um, N_GL>>)
       THEN /\ fs' = Symlink(fs, N_gl, <<N_sdk, N_include, N_um, N_GL>>)
            /\ fin' = [fin EXCEPT !.pc = "done"]
       ELSE /\ fin' = [fin EXCEPT !.pc = "failed", !.error = "unable to symlink"]
            /\ UNCHANGED fs
    /\ UNCHANGED <<inputs, prep, ipc, progress, wk, sdk_files, srcGone, markers,
                   granted, xfers>>

Finalize == FinStart \/ FinScan \/ FinLink \/ FinGL

(***************************************************************************)
(* Two SDK header payloads placed concurrently into fresh roots, then the  *)
(* finalize pass.                                                          *)
(***************************************************************************)
HeaderNames == {N_Windows_h, N_windows_h, N_Foo_H, N_foo_h}

\* the include targets a header may hold
IncludeTargets == {N_Foo_H, N_sub_Windows_h, N_nonexistent_h}

\* the source paths of the header files of an item
RECURSIVE StagedFiles(_, _)
StagedFiles(src, tree) ==
    { Join(src, tree.files[k].name) : k \in 1..Len(tree.files) }
        \cup UNION { StagedFiles(Join(src, tree.dirs[k].name), tree.dirs[k].tree) :
                       k \in 1..Len(tree.dirs) }

HeaderSources(cfg, it) ==
    LET m == ResolveMappings(cfg, it, {"X86_64"}, {"Desktop"}).maps[1]
    IN  StagedFiles(m.src, m.tree)

\* every header of the two payloads holds the same include directives
HeaderScenarios ==
    { Scenario(Config(FALSE, FALSE, FALSE, FALSE, cp), {"X86_64"}, {"Desktop"}, its,
               [src \in HeaderSources(Config(FALSE, FALSE, FALSE, FALSE, cp), its[1])
                          \cup HeaderSources(Config(FALSE, FALSE, FALSE, FALSE, cp), its[2])
                    |-> inc]) :
        cp \in BOOLEAN,
        inc \in {<<>>} \cup { <<t>> : t \in IncludeTargets },
        its \in { <<Item(Payload(N_p1, "SdkHeaders", "None", "None"),
                         Wrap(<<N_include, N_um>>, Tree(fl1, <<>>))),
                    Item(Payload(N_p2, "SdkHeaders", "None", "None"),
                         Wrap(<<N_include, d2>>, Tree(fl2, <<>>)))>> :
                    d2 \in {N_um, N_shared},
                    fl1 \in FileLists(HeaderNames, {1}),
                    fl2 \in FileLists(HeaderNames, {1}) } }

InitHeaders == \E sc \in HeaderScenarios : InitFrom(sc)

NextHeaders == Place \/ Finalize

SpecHeaders == InitHeaders /\ [][NextHeaders]_vars

(***************************************************************************)
(* Runs in which the resolver meets every layout, an operation of the      *)
(* operating system fails, an include target is no text, or two payloads   *)
(* have the same destination directory.                                    *)
(***************************************************************************)
LibLeaf == Tree(<<File(N_msvcrt_lib, 1)>>, <<>>)

BothArchDirs == <<Dir(N_x86, LibLeaf), Dir(N_x64, LibLeaf)>>

OneCoreDir == Dir(N_onecore, Tree(<<>>, BothArchDirs))

\* a CRT library payload staged without and with its spectre directories
CrtTreePlain == Wrap(<<N_lib>>, Tree(<<>>, BothArchDirs \o <<OneCoreDir>>))
CrtTreeFull ==
    Wrap(<<N_lib>>,
         Tree(<<>>, BothArchDirs
                        \o <<Dir(N_spectre, Tree(<<>>, BothArchDirs \o <<OneCoreDir>>)),
                             OneCoreDir>>))

RequestedVariants ==
    {{"Desktop"}, {"Desktop", "Spectre"}, {"Desktop", "Store"},
     {"Desktop", "Store", "Spectre"}}

\* CRT library payloads of every variant and architecture, also without one
CrtResolveScenarios ==
    { Scenario(Config(FALSE, FALSE, FALSE, ms, TRUE), {"X86", "X86_64"}, vs,
               <<Item(Payload(N_p1, "CrtLibs", v, a), t)>>, NoContents) :
        ms \in BOOLEAN, vs \in RequestedVariants,
        v \in {"None", "Desktop", "OneCore", "Store"},
        a \in {"None", "X86", "X86_64"},
        t \in {CrtTreePlain, CrtTreeFull} }

ArchSets == {{"X86"}, {"X86_64"}, {"X86", "X86_64"}}

\* payloads of the other kinds, staged for the requested architectures or
\* for others, with or without their include directory
OtherResolveScenarios ==
    { Scenario(Config(FALSE, FALSE, FALSE, ms, cp), as, {"Desktop"},
               <<Item(pt[1], pt[2])>>, NoContents) :
        ms \in BOOLEAN, cp \in BOOLEAN, as \in ArchSets,
        pt \in UNION {
            { <<p, Staged(p, sas, {"Desktop"}, LibLeaf, UcrtHeaders)>> :
                p \in { Payload(N_p1, "Ucrt", "None", "None"),
                        Payload(N_p1, "SdkStoreLibs", "None", "None"),
                        Payload(N_p1, "SdkLibs", "None", "None"),
                        Payload(N_p1, "SdkLibs", "None", "X86"),
                        Payload(N_p1, "SdkLibs", "None", "X86_64"),
                        Payload(N_p1, "CrtHeaders", "None", "None"),
                        Payload(N_p1, "SdkHeaders", "None", "None") } }
              \cup { <<Payload(N_p1, k, "None", "None"),
                       Wrap(<<N_lib, N_ucrt>>, Tree(<<>>, ArchDirs(sas, LibLeaf)))>> :
                       k \in {"Ucrt", "CrtHeaders", "SdkHeaders"} }
            : sas \in ArchSets } }

RunScenarios == CrtResolveScenarios \cup OtherResolveScenarios

\* a directory of two libraries and a subdirectory
FaultLeaf ==
    Tree(<<File(N_msvcrt_lib, 1), File(N_libcmt_lib, 1)>>,
         <<Dir(N_store, Tree(<<File(N_msvcrt_lib, 1)>>, <<>>))>>)

\* no path, or one path, at which the operating system fails
FaultSets(paths) == {{}} \cup { {q} : q \in paths }

\* a Ucrt payload for two architectures: three mappings placed concurrently,
\* one of which may meet a failing directory creation, copy or move
UcrtFaultScenarios ==
    { <<Scenario(Config(FALSE, FALSE, FALSE, FALSE, cp), {"X86", "X86_64"}, {"Desktop"},
                 <<Item(Payload(N_p1, "Ucrt", "None", "None"),
                        Staged(Payload(N_p1, "Ucrt", "None", "None"), {"X86", "X86_64"},
                               {"Desktop"}, FaultLeaf, UcrtHeaders))>>,
                 NoContents), fl>> :
        cp \in BOOLEAN,
        fl \in FaultSets({ <<N_sdk, N_lib, N_ucrt, N_x86>>,
                           <<N_sdk, N_lib, N_ucrt, N_x86, N_msvcrt_lib>>,
                           <<N_sdk, N_lib, N_ucrt, N_x86, N_store>>,
                           <<N_sdk, N_lib, N_ucrt, N_x86_64, N_libcmt_lib>>,
                           <<N_sdk, N_include, N_ucrt, N_stdio_h>> }) }

\* libraries whose casing symlink may fail to be created
LinkFaultScenarios ==
    { <<Scenario(Config(FALSE, FALSE, FALSE, FALSE, TRUE), {"X86", "X86_64"}, {"Desktop"},
                 <<Item(Payload(N_p1, "SdkStoreLibs", "None", "None"),
                        Staged(Payload(N_p1, "SdkStoreLibs", "None", "None"),
                               {"X86", "X86_64"}, {"Desktop"},
                               Tree(<<File(N_Kernel32_Lib, 1), File(N_uuid_lib, 1)>>, <<>>),
                               UcrtHeaders))>>,
                 NoContents), fl>> :
        fl \in FaultSets({ <<N_sdk, N_lib, N_um, N_x86, N_kernel32_lib>>,
                           <<N_sdk, N_lib, N_um, N_x86_64, N_Kernel32_Lib>> }) }
    \cup
    { <<Scenario(Config(FALSE, FALSE, FALSE, FALSE, TRUE), {"X86_64"}, {"Desktop"},
                 <<Item(Payload(N_p1, "CrtLibs", "Desktop", "X86_64"),
                        Staged(Payload(N_p1, "CrtLibs", "Desktop", "X86_64"), {"X86_64"},
                               {"Desktop"},
                               Tree(<<File(N_libcmt_lib, 1), File(N_uuid_lib, 1)>>, <<>>),
                               UcrtHeaders))>>,
                 NoContents), fl>> :
        fl \in FaultSets({ <<N_crt, N_lib, N_x86_64, N_LIBCMT_lib>> }) }

\* the include targets of the three headers of the header fault scenarios
HeaderTexts(a, b, c) ==
    (<<N_p1, N_include, N_um, N_Windows_h>> :> a)
        @@ (<<N_p1, N_include, N_um, N_foo_h>> :> b)
        @@ (<<N_p2, N_include, N_shared, N_windows_h>> :> c)

\* two header payloads: a transfer, a read or a symlink may fail, and a
\* header may hold an include target that is no valid UTF-8
HeaderFaultScenarios ==
    { <<Scenario(Config(FALSE, FALSE, FALSE, FALSE, cp), {"X86_64"}, {"Desktop"},
                 <<Item(Payload(N_p1, "SdkHeaders", "None", "None"),
                        Wrap(<<N_include, N_um>>,
                             Tree(<<File(N_Windows_h, 1), File(N_foo_h, 1)>>, <<>>))),
                   Item(Payload(N_p2, "SdkHeaders", "None", "None"),
                        Wrap(<<N_include, N_shared>>,
                             Tree(<<File(N_windows_h, 1)>>, <<>>)))>>,
                 txt), fl>> :
        cp \in BOOLEAN,
        txt \in { HeaderTexts(<<>>, <<N_Foo_H>>, <<>>),
                  HeaderTexts(<<N_cafe_latin1_h>>, <<N_Foo_H>>, <<N_cafe_latin1_h>>),
                  HeaderTexts(<<>>, <<N_Foo_H, N_cafe_latin1_h>>, <<>>) },
        fl \in FaultSets({ <<N_sdk, N_include, N_um, N_Windows_h>>,
                           <<N_sdk, N_include, N_shared, N_windows_h>>,
                           <<N_sdk, N_include, N_um, N_Foo_H>>,
                           <<N_sdk, N_include, N_um, N_GL>> }) }

FaultScenarios == UcrtFaultScenarios \cup LinkFaultScenarios \cup HeaderFaultScenarios

InitRun ==
    \/ \E sc \in RunScenarios : InitFrom(sc)
    \/ \E sf \in FaultScenarios : InitWith(sf[1], sf[2])

NextRun == Place \/ Finalize

SpecRun == InitRun /\ [][NextRun]_vars

(***************************************************************************)
(* Two library payloads of one run, placed concurrently.                   *)
(***************************************************************************)
\* the CRT libraries of two variants, and the SDK libraries with the Store
\* SDK libraries, for one architecture
LibraryPairs ==
    { <<Payload(N_p1, "CrtLibs", "Desktop", "X86_64"), Payload(N_p2, "CrtLibs", v, "X86_64"),
        {N_msvcrt_lib, N_libcmt_lib}>> : v \in {"OneCore", "Store"} }
    \cup { <<Payload(N_p1, "SdkLibs", "None", "X86_64"),
             Payload(N_p2, "SdkStoreLibs", "None", "None"),
             {N_Kernel32_Lib, N_uuid_lib}>> }

PairOf(cp, pp, fl1, fl2) ==
    Scenario(Config(TRUE, FALSE, FALSE, FALSE, cp), {"X86_64"}, {"Desktop", "Store"},
             <<Item(pp[1], Staged(pp[1], {"X86_64"}, {"Desktop", "Store"},
                                  Tree(fl1, <<>>), UcrtHeaders)),
               Item(pp[2], Staged(pp[2], {"X86_64"}, {"Desktop", "Store"},
                                  Tree(fl2, <<>>), UcrtHeaders))>>,
             NoContents)

PairScenarios ==
    UNION { { PairOf(cp, pp, fl1, fl2) :
                cp \in BOOLEAN,
                fl1 \in FileLists(pp[3], {1}), fl2 \in FileLists(pp[3], {1}) } :
            pp \in LibraryPairs }

InitPair == \E sc \in PairScenarios : InitFrom(sc)

NextPair == Place

SpecPair == InitPair /\ [][NextPair]_vars

(***************************************************************************)
(* The whole program run over an output directory with prior contents, and *)
(* run again on the same inputs.                                           *)
(***************************************************************************)
MaxRuns == 2

\* what the output directory may hold before a run: nothing, empty roots,
\* the remains of an earlier partial run, one root only, a regular file or
\* a symlink in the place of a root
PriorContents ==
    { <<>>,
      FreshRoots,
      (<<N_crt>> :> DirEntry) @@ (<<N_crt, N_lib>> :> DirEntry)
          @@ (<<N_crt, N_lib, N_msvcrt_lib>> :> FileEntry(<<N_p1, N_lib, N_msvcrt_lib>>))
          @@ (<<N_crt, N_lib, N_MSVCRT_lib>> :> LinkEntry(N_msvcrt_lib))
          @@ (<<N_sdk>> :> DirEntry) @@ (<<N_sdk, N_include>> :> DirEntry)
          @@ (<<N_sdk, N_include, N_Windows_h>>
                  :> FileEntry(<<N_p1, N_include, N_Windows_h>>)),
      (<<N_crt>> :> DirEntry) @@ (<<N_crt, N_lib>> :> DirEntry),
      (<<N_crt>> :> FileEntry(<<N_p1>>)) @@ (<<N_sdk>> :> DirEntry),
      (<<N_crt>> :> LinkEntry(N_store)) @@ (<<N_sdk>> :> DirEntry),
      (<<N_crt>> :> LinkEntry(N_sdk)) @@ (<<N_sdk>> :> DirEntry)
          @@ (<<N_sdk, N_include>> :> DirEntry) }

PrepFaults ==
    FaultSets({ <<N_crt>>, <<N_sdk>>, <<N_crt, N_lib, N_msvcrt_lib>>, <<N_sdk, N_include>> })

\* two header payloads that hold one header in two casings
TwiceScenarios ==
    { Scenario(Config(FALSE, FALSE, FALSE, FALSE, cp), {"X86_64"}, {"Desktop"},
               <<Item(Payload(N_p1, "SdkHeaders", "None", "None"),
                      Wrap(<<N_include, N_um>>, Tree(<<File(N_Windows_h, 1)>>, <<>>))),
                 Item(Payload(N_p2, "SdkHeaders", "None", "None"),
                      Wrap(<<N_include, N_shared>>, Tree(<<File(N_windows_h, 1)>>, <<>>)))>>,
               NoContents) :
        cp \in BOOLEAN }

Unprepared ==
    [pc |-> "remove_crt", roots |-> FALSE, run |-> 1, first |-> <<>>, error |-> "none"]

InitTwice ==
    \E sc \in TwiceScenarios : \E fl \in PrepFaults : \E f0 \in PriorContents :
        InitState(sc, fl, f0, Unprepared)

\* the program is run again on the same inputs once a run has ended without
\* error: the destination is remembered, the unpack stage has staged the
\* payloads again, and prep_splat starts
Rerun ==
    /\ prep.pc = "done"
    /\ prep.run < MaxRuns
    /\ fin.pc = "done"
    /\ \A w \in DOMAIN wk : wk[w].pc = "done"
    /\ prep' = [Unprepared EXCEPT !.run = prep.run + 1, !.first = fs]
    /\ ipc' = [i \in DOMAIN ipc |-> "start"]
    /\ progress' = [i \in DOMAIN ipc |-> [length |-> 0, pos |-> 0, finished |-> FALSE]]
    /\ wk' = <<>>
    /\ sdk_files' = <<>>
    /\ srcGone' = {}
    /\ markers' = DOMAIN ipc
    /\ granted' = {}
    /\ xfers' = {}
    /\ fin' = IdleFin
    /\ UNCHANGED <<inputs, fs>>

NextTwice == PrepSplat \/ Place \/ Finalize \/ Rerun

SpecTwice == InitTwice /\ [][NextTwice]_vars

(***************************************************************************)
(* The whole of sdk/include: header payloads with files and subdirectories *)
(* under include/um and include/ucrt, placed next to another header        *)
(* payload or next to the Ucrt payload, whose headers go to                *)
(* sdk/include/ucrt without passing the registry; then the finalize pass.  *)
(***************************************************************************)
\* the directories of include/ of a header payload: um with its files and
\* subdirectories, and ucrt when it has files
IncludeDirs(um_files, um_dirs, ucrt_files) ==
    (IF um_files = <<>> /\ um_dirs = <<>> THEN <<>>
     ELSE <<Dir(N_um, Tree(um_files, um_dirs))>>)
        \o (IF ucrt_files = <<>> THEN <<>> ELSE <<Dir(N_ucrt, Tree(ucrt_files, <<>>))>>)

HeaderPayload(name, um_files, um_dirs, ucrt_files) ==
    Item(Payload(name, "SdkHeaders", "None", "None"),
         Wrap(<<N_include>>, Tree(<<>>, IncludeDirs(um_files, um_dirs, ucrt_files))))

\* the first payload: headers of um, one of them possibly without extension,
\* and possibly a header of ucrt
FirstPayloads ==
    { HeaderPayload(N_p1, umf, <<>>, ucf) :
        umf \in { <<File(N_Windows_h, 1)>>,
                  <<File(N_Sub, 1)>>,
                  <<File(N_sub, 1), File(N_foo_h, 1)>>,
                  <<File(N_Windows_h, 1), File(N_Sub, 1)>> },
        ucf \in { <<>>, <<File(N_Stdio_h, 1)>>, <<File(N_stdio_h, 1)>> } }

\* the second payload: headers of um under a subdirectory, or the Ucrt
\* payload with its stdio.h
SecondPayloads ==
    { HeaderPayload(N_p2, umf, <<Dir(d, Tree(<<File(N_windows_h, 1)>>, <<>>))>>, <<>>) :
        umf \in { <<>>, <<File(N_foo_h, 1)>> },
        d \in { N_sub, N_gl } }
    \cup
    { Item(Payload(N_p2, "Ucrt", "None", "None"),
           Staged(Payload(N_p2, "Ucrt", "None", "None"), {"X86_64"}, {"Desktop"},
                  LibLeaf, UcrtHeaders)) }

\* every header of the two payloads holds the same include directives
IncludeScenarios ==
    { Scenario(Config(FALSE, FALSE, FALSE, FALSE, cp), {"X86_64"}, {"Desktop"},
               <<a, b>>,
               [src \in HeaderSources(Config(FALSE, FALSE, FALSE, FALSE, cp), a)
                          \cup (IF b.payload.kind = "SdkHeaders"
                                THEN HeaderSources(Config(FALSE, FALSE, FALSE, FALSE, cp), b)
                                ELSE {})
                    |-> inc]) :
        cp \in BOOLEAN,
        inc \in { <<>>, <<N_sub_Windows_h>>, <<N_Foo_H>> },
        a \in FirstPayloads,
        b \in SecondPayloads }

InitInclude == \E sc \in IncludeScenarios : InitFrom(sc)

NextInclude == Place \/ Finalize

SpecInclude == InitInclude /\ [][NextInclude]_vars

(***************************************************************************)
(* Vocabulary of the claims: what a mapping holds and what the destination *)
(* shows, stated without the traversal.                                    *)
(***************************************************************************)
\* the mapping task w works on
MappingOf(w) == ResolveMappings(config, items[w[1]], arches, variants).maps[w[2]]

Entry(src, tar, f) ==
    [src |-> Join(src, f.name), tar |-> Join(tar, f.name), name |-> f.name,
     size |-> f.size]

\* the files directly in the root directory of a mapping
RootEntries(m) == { Entry(m.src, m.target, m.tree.files[k]) : k \in 1..Len(m.tree.files) }

\* all files of a subtree, with their source and destination paths
RECURSIVE TreeEntries(_, _, _)
TreeEntries(src, tar, tree) ==
    { Entry(src, tar, tree.files[k]) : k \in 1..Len(tree.files) }
        \cup UNION { TreeEntries(Join(src, tree.dirs[k].name),
                                 Join(tar, tree.dirs[k].name),
                                 tree.dirs[k].tree) : k \in 1..Len(tree.dirs) }

AllEntries(m) == TreeEntries(m.src, m.target, m.tree)

\* the files beneath some subdirectory of the mapping's root
DeepEntries(m) == AllEntries(m) \ RootEntries(m)

\* a Store CRT mapping of a run that did not request Store
IsPrunedMapping(m) == m.kind = "CrtLibs" /\ m.variant = "Store" /\ "Store" \notin variants

\* the files the traversal of a mapping comes to
VisitedEntries(m) == IF IsPrunedMapping(m) THEN RootEntries(m) ELSE AllEntries(m)

\* the destination holds the content of the entry's source under its name
IsPlaced(e) == IsFile(fs, e.tar) /\ fs[e.tar].from = e.src

Done(w) == wk[w].pc = "done"

\* the base name ends in d, in d_netcore, or in d and one decimal digit
DebugSuffixed(base) ==
    LET n == Len(base)
    IN  \/ n >= 1 /\ base[n] = 100
        \/ n >= 9 /\ SubSeq(base, n - 8, n) = N_d_netcore
        \/ n >= 2 /\ base[n] \in 48..57 /\ base[n - 1] = 100

HasExtension(name, ext) ==
    Len(name) >= Len(ext) /\ \A k \in 1..Len(ext) : name[Len(name) - Len(ext) + k] = ext[k]

IsPdbName(name) == HasExtension(name, N__pdb)

IsDebugLibName(name) ==
    HasExtension(name, N__lib) /\ DebugSuffixed(SubSeq(name, 1, Len(name) - 4))

(***************************************************************************)
(* C2. When the task of a CrtLibs or Ucrt mapping has ended without error, *)
(* each file it visited is in the destination if and only if (it is no     *)
(* .pdb or include_debug_symbols is set) and (it is no debug-suffixed .lib *)
(* or include_debug_libs is set); the task of a mapping of any other kind  *)
(* has placed every file it was to write, whatever the two flags are.      *)
(***************************************************************************)
C2_DebugFilterIff ==
    \A w \in DOMAIN wk :
        Done(w) =>
            \A e \in VisitedEntries(MappingOf(w)) :
                IF wk[w].kind \in {"CrtLibs", "Ucrt"}
                THEN IsPlaced(e) <=>
                        /\ ~IsPdbName(e.name) \/ config.include_debug_symbols
                        /\ ~IsDebugLibName(e.name) \/ config.include_debug_libs
                ELSE IsPlaced(e)
                        \/ \E g \in granted : g.tar # e.tar /\
                               calc_lower_hash(g.name) = calc_lower_hash(e.name)

\* a CRT task has ended having skipped one file and placed another
C2_Witness ==
    \E w \in DOMAIN wk :
        /\ Done(w) /\ wk[w].kind = "CrtLibs"
        /\ \E e \in VisitedEntries(MappingOf(w)) : IsPlaced(e) /\ IsDebugLibName(e.name)
        /\ \E e \in VisitedEntries(MappingOf(w)) : ~IsPlaced(e) /\ IsPdbName(e.name)

(***************************************************************************)
(* C3. As claimed: a .pdb whose base name carries a debug suffix is in the *)
(* destination of a CrtLibs or Ucrt mapping only if include_debug_symbols  *)
(* and include_debug_libs are both set.                                    *)
(***************************************************************************)
IsDebugPdbName(name) ==
    IsPdbName(name) /\ DebugSuffixed(SubSeq(name, 1, Len(name) - 4))

C3_DebugPdbNeedsBothFlags ==
    \A w \in DOMAIN wk :
        wk[w].kind \in {"CrtLibs", "Ucrt"} =>
            \A e \in VisitedEntries(MappingOf(w)) :
                IsDebugPdbName(e.name) /\ IsPlaced(e) =>
                    config.include_debug_symbols /\ config.include_debug_libs

(***************************************************************************)
(* C3, amended. When the task of a CrtLibs or Ucrt mapping has ended       *)
(* without error, a .pdb whose base name carries a debug suffix is in the  *)
(* destination if and only if include_debug_symbols is set;                *)
(* include_debug_libs does not matter.                                     *)
(***************************************************************************)
C3_DebugPdbIffSymbols ==
    \A w \in DOMAIN wk :
        Done(w) /\ wk[w].kind \in {"CrtLibs", "Ucrt"} =>
            \A e \in VisitedEntries(MappingOf(w)) :
                IsDebugPdbName(e.name) =>
                    (IsPlaced(e) <=> config.include_debug_symbols)

\* a debug .pdb is placed with include_debug_libs unset
C3_Witness ==
    \E w \in DOMAIN wk :
        /\ Done(w) /\ wk[w].kind \in {"CrtLibs", "Ucrt"}
        /\ ~config.include_debug_libs
        /\ \E e \in VisitedEntries(MappingOf(w)) : IsDebugPdbName(e.name) /\ IsPlaced(e)

(***************************************************************************)
(* C4. The task of a Store CRT mapping of a run that did not request Store *)
(* never has a subdirectory of the mapping's root on its worklist, and no  *)
(* file beneath a subdirectory is in the destination; when it has ended,   *)
(* the files directly in the root are placed as the debug filter decides.  *)
(* The task of any other mapping has, when it has ended, created every     *)
(* directory of its subtree and placed the files beneath them.             *)
(***************************************************************************)
\* the destination directories of a subtree
RECURSIVE TreeDirs(_, _)
TreeDirs(tar, tree) ==
    {tar} \cup UNION { TreeDirs(Join(tar, tree.dirs[k].name), tree.dirs[k].tree) :
                         k \in 1..Len(tree.dirs) }

PassesFilter(kind, name) ==
    kind \in {"CrtLibs", "Ucrt"} =>
        /\ ~IsPdbName(name) \/ config.include_debug_symbols
        /\ ~IsDebugLibName(name) \/ config.include_debug_libs

C4_StorePruning ==
    \A w \in DOMAIN wk :
        LET m == MappingOf(w)
        IN  IF IsPrunedMapping(m)
            THEN /\ \A k \in 1..Len(wk[w].dir_stack) : wk[w].dir_stack[k].tar = m.target
                 /\ wk[w].pc # "pop" => wk[w].tar = m.target
                 /\ \A e \in DeepEntries(m) : e.tar \notin DOMAIN fs
                 /\ \A d \in TreeDirs(m.target, m.tree) : d # m.target => d \notin DOMAIN fs
                 /\ Done(w) => \A e \in RootEntries(m) :
                                   IsPlaced(e) <=> PassesFilter(m.kind, e.name)
            ELSE Done(w) /\ m.kind # "SdkHeaders" =>
                     /\ \A d \in TreeDirs(m.target, m.tree) : IsDir(fs, d)
                     /\ \A e \in AllEntries(m) :
                            IsPlaced(e) <=> PassesFilter(m.kind, e.name)

\* a pruned task has ended: a root file is placed, files beneath a
\* subdirectory exist in the source
C4_Witness ==
    \E w \in DOMAIN wk :
        /\ IsPrunedMapping(MappingOf(w)) /\ Done(w)
        /\ DeepEntries(MappingOf(w)) # {}
        /\ \E e \in RootEntries(MappingOf(w)) : IsPlaced(e)

\* a Store CRT task of a run that requested Store has placed a file beneath
\* a subdirectory
C4_WitnessDescended ==
    \E w \in DOMAIN wk :
        /\ wk[w].kind = "CrtLibs" /\ wk[w].variant = "Store" /\ "Store" \in variants
        /\ Done(w)
        /\ \E e \in DeepEntries(MappingOf(w)) : IsPlaced(e)

(***************************************************************************)
(* C5. From the moment the tasks of a splat call exist, the progress       *)
(* length is the summed size of all files of all its mappings' subtrees;   *)
(* the position never exceeds it, and when every task has ended without    *)
(* error the position equals the length.                                   *)
(***************************************************************************)
RECURSIVE SumEntrySizes(_)
SumEntrySizes(es) ==
    IF es = {} THEN 0
    ELSE LET e == CHOOSE x \in es : TRUE IN e.size + SumEntrySizes(es \ {e})

\* all files of all mappings of item i (their source paths are distinct)
ItemEntries(i) == UNION { AllEntries(MappingOf(w)) : w \in TasksOf(i) }

\* the files of item i a task has advanced the progress for
Surveyed(i) ==
    UNION { { e \in AllEntries(MappingOf(w)) :
                \/ Done(w)
                \/ /\ wk[w].pc \in {"file", "transfer", "repair"}
                   /\ \E k \in 1..Len(wk[w].tree.files) :
                          /\ e.src = Join(wk[w].src, wk[w].tree.files[k].name)
                          /\ k < wk[w].idx \/ (k = wk[w].idx /\ wk[w].pc # "file") }
            : w \in TasksOf(i) }

C5_ProgressTotal ==
    \A i \in DOMAIN ipc :
        ipc[i] \in {"placing", "ok"} =>
            /\ progress[i].length = SumEntrySizes(ItemEntries(i))
            /\ progress[i].pos <= progress[i].length
            /\ progress[i].pos >= SumEntrySizes(Surveyed(i))
            /\ (\A w \in TasksOf(i) : Done(w)) => progress[i].pos = progress[i].length

\* a call has finished whose tasks skipped files by the filter and by pruning
C5_Witness ==
    \E i \in DOMAIN ipc :
        /\ ipc[i] = "ok" /\ progress[i].finished
        /\ \A w \in TasksOf(i) : Done(w)
        /\ \E w \in TasksOf(i) :
              /\ IsPrunedMapping(MappingOf(w))
              /\ DeepEntries(MappingOf(w)) # {}
              /\ \E e \in RootEntries(MappingOf(w)) : ~IsPlaced(e)
        /\ progress[i].pos = progress[i].length

\* a call has finished whose task skipped a header by the dedup gate
C5_WitnessDedup ==
    \E i \in DOMAIN ipc :
        /\ ipc[i] = "ok"
        /\ \E w \in TasksOf(i) :
              /\ Done(w) /\ wk[w].kind = "SdkHeaders"
              /\ \E e \in AllEntries(MappingOf(w)) : e.tar \notin DOMAIN fs
        /\ progress[i].pos = progress[i].length /\ progress[i].pos > 0

(***************************************************************************)
(* C8. As claimed: when the task of a CrtLibs mapping has ended, every     *)
(* placed .lib whose base name is libcmt, msvcrt or oldnames in any casing *)
(* has a symlink at the upper-case name in its directory that points to    *)
(* it.                                                                     *)
(***************************************************************************)
ToAsciiUppercase(s) ==
    [k \in 1..Len(s) |-> IF s[k] >= 97 /\ s[k] <= 122 THEN s[k] - 32 ELSE s[k]]

LibBase(name) == SubSeq(name, 1, Len(name) - 4)

AngryBases == {N_libcmt, N_msvcrt, N_oldnames}

IsAngryAnyCase(name) ==
    HasExtension(name, N__lib) /\ to_ascii_lowercase(LibBase(name)) \in AngryBases

IsAngryExact(name) == HasExtension(name, N__lib) /\ LibBase(name) \in AngryBases

\* the path of the upper-case symlink of a CRT library
AngryLinkPath(e) == Join(Parent(e.tar), ToAsciiUppercase(LibBase(e.name)) \o N__lib)

HasAngryLink(e) ==
    IsLink(fs, AngryLinkPath(e)) /\ fs[AngryLinkPath(e)].to = e.name

C8_AngryLinkAnyCase ==
    \A w \in DOMAIN wk :
        Done(w) /\ wk[w].kind = "CrtLibs" =>
            \A e \in VisitedEntries(MappingOf(w)) :
                IsPlaced(e) /\ IsAngryAnyCase(e.name) => HasAngryLink(e)

(***************************************************************************)
(* C8, amended. When the task of a CrtLibs mapping has ended without       *)
(* error, every placed file named exactly libcmt.lib, msvcrt.lib or        *)
(* oldnames.lib (lower case) has a symlink LIBCMT.lib, MSVCRT.lib or       *)
(* OLDNAMES.lib in its directory that points to it, and the mapping's      *)
(* destination holds no other symlink: a file of another casing gets none. *)
(***************************************************************************)
C8_AngryLinkExact ==
    \A w \in DOMAIN wk :
        Done(w) /\ wk[w].kind = "CrtLibs" =>
            LET m == MappingOf(w)
            IN  /\ \A e \in VisitedEntries(m) :
                       IsPlaced(e) /\ IsAngryExact(e.name) => HasAngryLink(e)
                /\ \A p \in DOMAIN fs :
                       IsLink(fs, p) /\ HasPrefix(p, m.target) =>
                           \E e \in VisitedEntries(m) :
                               /\ IsPlaced(e) /\ IsAngryExact(e.name)
                               /\ p = AngryLinkPath(e) /\ fs[p].to = e.name

\* libcmt.lib is placed and LIBCMT.lib links to it
C8_Witness ==
    \E w \in DOMAIN wk :
        /\ Done(w) /\ wk[w].kind = "CrtLibs"
        /\ \E e \in VisitedEntries(MappingOf(w)) :
              e.name = N_libcmt_lib /\ IsPlaced(e) /\ HasAngryLink(e)
              /\ FileName(AngryLinkPath(e)) = N_LIBCMT_lib

\* Libcmt.lib is placed and has no symlink
C8_WitnessOtherCasing ==
    \E w \in DOMAIN wk :
        /\ Done(w) /\ wk[w].kind = "CrtLibs"
        /\ \E e \in VisitedEntries(MappingOf(w)) :
              e.name = N_Libcmt_lib /\ IsPlaced(e) /\ AngryLinkPath(e) \notin DOMAIN fs

(***************************************************************************)
(* C9. As claimed: when the task of an SdkLibs or SdkStoreLibs mapping has *)
(* ended, the content of a file whose name has an upper-case character is  *)
(* stored under the lower-cased name, and the original name is a symlink   *)
(* to it.                                                                  *)
(***************************************************************************)
LowerPath(e) == Join(Parent(e.tar), to_ascii_lowercase(e.name))

C9_ContentUnderLowerName ==
    \A w \in DOMAIN wk :
        Done(w) /\ wk[w].kind \in {"SdkLibs", "SdkStoreLibs"} =>
            \A e \in VisitedEntries(MappingOf(w)) :
                ContainsUppercase(e.name) =>
                    /\ IsFile(fs, LowerPath(e)) /\ fs[LowerPath(e)].from = e.src
                    /\ IsLink(fs, e.tar) /\ fs[e.tar].to = to_ascii_lowercase(e.name)

(***************************************************************************)
(* C9, amended. When the task of an SdkLibs or SdkStoreLibs mapping has    *)
(* ended without error, the content of a file whose name has an upper-case *)
(* ASCII character is stored under its original name and the lower-cased   *)
(* name is a symlink to the original name; a file whose name has none is   *)
(* stored under its own name and no symlink points to it.                  *)
(***************************************************************************)
C9_LinkAtLowerName ==
    \A w \in DOMAIN wk :
        Done(w) /\ wk[w].kind \in {"SdkLibs", "SdkStoreLibs"} =>
            \A e \in VisitedEntries(MappingOf(w)) :
                /\ IsPlaced(e)
                /\ IF ContainsUppercase(e.name)
                   THEN IsLink(fs, LowerPath(e)) /\ fs[LowerPath(e)].to = e.name
                   ELSE \A p \in DOMAIN fs :
                            IsLink(fs, p) /\ Parent(p) = Parent(e.tar) => fs[p].to # e.name

\* Kernel32.Lib is a file and kernel32.lib a symlink to it
C9_Witness ==
    \E w \in DOMAIN wk :
        /\ Done(w) /\ wk[w].kind \in {"SdkLibs", "SdkStoreLibs"}
        /\ \E e \in VisitedEntries(MappingOf(w)) :
              /\ e.name = N_Kernel32_Lib /\ IsPlaced(e)
              /\ IsLink(fs, LowerPath(e)) /\ FileName(LowerPath(e)) = N_kernel32_lib

(***************************************************************************)
(* C10. As claimed: with disable_symlinks set, the destination never holds *)
(* a symlink.                                                              *)
(***************************************************************************)
C10_NoSymlinkWhenDisabled ==
    config.disable_symlinks => \A p \in DOMAIN fs : ~IsLink(fs, p)

(***************************************************************************)
(* The header placements and the finalize pass.                            *)
(***************************************************************************)
HeaderTasks == { w \in DOMAIN wk : wk[w].kind = "SdkHeaders" }

\* the staged header files of the run, once their tasks exist
HeaderEntries == UNION { AllEntries(MappingOf(w)) : w \in HeaderTasks }

SameKey(a, b) == calc_lower_hash(a) = calc_lower_hash(b)

\* every splat call has returned and no task has failed
AllPlaced ==
    /\ \A i \in DOMAIN ipc : ipc[i] = "ok"
    /\ \A w \in DOMAIN wk : Done(w)

\* the physical files of the destination whose name has the key of name
PhysicalCopies(name) ==
    { p \in DOMAIN fs : IsFile(fs, p) /\ SameKey(FileName(p), name) }

(***************************************************************************)
(* C1. Under every interleaving of the header tasks that share a registry: *)
(* for each case-insensitive file name at most one task is granted the     *)
(* write and at most one transfer is made; when all tasks have ended, of   *)
(* the staged files that share a case-insensitive name exactly one has     *)
(* been transferred and is in the destination, and no other is.            *)
(***************************************************************************)
C1_OneWriterPerName ==
    /\ \A g1, g2 \in granted : SameKey(g1.name, g2.name) => g1 = g2
    /\ \A x1, x2 \in xfers :
          (x1.w \in HeaderTasks /\ x2.w \in HeaderTasks
             /\ SameKey(FileName(x1.tar), FileName(x2.tar))) => x1 = x2
    /\ \A e \in HeaderEntries :
          Cardinality({ o \in HeaderEntries : SameKey(o.name, e.name) /\ IsPlaced(o) }) <= 1
    /\ AllPlaced =>
          \A e \in HeaderEntries :
              /\ Cardinality({ o \in HeaderEntries :
                                 SameKey(o.name, e.name) /\ IsPlaced(o) }) = 1
              /\ Cardinality({ x \in xfers : SameKey(FileName(x.tar), e.name) }) = 1
              /\ Cardinality(PhysicalCopies(e.name)) = 1

\* two staged files of different payloads share a name up to case; all tasks
\* have ended, one of the two is in the destination and the other is not
C1_Witness ==
    /\ AllPlaced
    /\ \E e1, e2 \in HeaderEntries :
          /\ e1.src[1] # e2.src[1]
          /\ e1.name # e2.name
          /\ SameKey(e1.name, e2.name)
          /\ IsPlaced(e1)
          /\ ~IsPlaced(e2)

\* a task comes to a file whose key another task has been granted and has
\* not yet transferred
C1_WitnessRace ==
    \E g \in granted : \E w \in HeaderTasks :
        /\ w # g.w
        /\ wk[g.w].pc = "transfer"
        /\ wk[w].pc = "file"
        /\ wk[w].idx <= Len(wk[w].tree.files)
        /\ SameKey(wk[w].tree.files[wk[w].idx].name, g.name)

\* the staged headers hold Windows.h and windows.h in different subtrees
BothCasings ==
    \E e1, e2 \in HeaderEntries :
        /\ e1.name = N_Windows_h
        /\ e2.name = N_windows_h
        /\ Parent(e1.src) # Parent(e2.src)

(***************************************************************************)
(* C6. With Windows.h and windows.h staged in different subtrees and       *)
(* symlinks enabled, when the placements and the finalize pass have ended, *)
(* the destination holds exactly one physical copy, it is named windows.h, *)
(* and Windows.h is a symlink to it in the same directory.                 *)
(***************************************************************************)
C6_LowercasePhysicalCopy ==
    (/\ fin.pc = "done"
     /\ AllPlaced
     /\ ~config.disable_symlinks
     /\ BothCasings)
        => /\ Cardinality(PhysicalCopies(N_windows_h)) = 1
           /\ \A p \in PhysicalCopies(N_windows_h) :
                 /\ FileName(p) = N_windows_h
                 /\ Join(Parent(p), N_Windows_h) \in DOMAIN fs
                 /\ IsLink(fs, Join(Parent(p), N_Windows_h))
                 /\ fs[Join(Parent(p), N_Windows_h)].to = N_windows_h

\* the include basenames found in the registered headers
FoundIncludes ==
    UNION { ScanIncludes(ReadCaptures(fs, sdk_files[h])) : h \in DOMAIN sdk_files }

\* the link loop of the finalize pass has ended
LinkLoopEnded == fin.pc = "done" \/ (fin.pc = "link" /\ fin.includes = {})

(***************************************************************************)
(* C7. The finalize pass over two placed header payloads does not fail,    *)
(* and when its link loop has ended, for every include basename n found in *)
(* a registered header: if the registry has an entry for the case-folded n *)
(* whose file name differs from n, a symlink named n pointing to that file *)
(* name is in the registered file's directory; if the file name is n, no   *)
(* symlink named n was created; if the registry has no entry, no symlink   *)
(* named n was created.                                                    *)
(***************************************************************************)
C7_IncludeLinks ==
    /\ fin.pc # "failed"
    /\ LinkLoopEnded =>
          \A n \in FoundIncludes :
              IF calc_lower_hash(n) \in DOMAIN sdk_files
              THEN LET disk_name == sdk_files[calc_lower_hash(n)]
                       link == Join(Parent(disk_name), n)
                   IN  IF FileName(disk_name) # n
                       THEN /\ link \in fin.linked
                            /\ link \in DOMAIN fs
                            /\ IsLink(fs, link)
                            /\ fs[link].to = FileName(disk_name)
                            /\ IsFile(fs, disk_name)
                       ELSE /\ IsFile(fs, disk_name)
                            /\ \A l \in fin.linked : FileName(l) # n
              ELSE \A l \in fin.linked : FileName(l) # n

\* a registered foo.h includes Foo.H and the pass has linked Foo.H to it
C7_Witness ==
    /\ fin.pc = "done"
    /\ N_Foo_H \in FoundIncludes
    /\ \E l \in fin.linked :
          /\ FileName(l) = N_Foo_H
          /\ IsLink(fs, l)
          /\ fs[l].to = N_foo_h

\* a registered header includes nonexistent.h, which no registered file is
\* named, and the pass has ended without error
C7_WitnessNoEntry ==
    /\ fin.pc = "done"
    /\ N_nonexistent_h \in FoundIncludes
    /\ calc_lower_hash(N_nonexistent_h) \notin DOMAIN sdk_files

\* a registered Foo.H includes Foo.H and the pass has ended
C7_WitnessSameName ==
    /\ fin.pc = "done"
    /\ N_Foo_H \in FoundIncludes
    /\ calc_lower_hash(N_Foo_H) \in DOMAIN sdk_files
    /\ FileName(sdk_files[calc_lower_hash(N_Foo_H)]) = N_Foo_H

(***************************************************************************)
(* The resolver.                                                           *)
(***************************************************************************)
CrtTasks == { w \in DOMAIN wk : wk[w].kind = "CrtLibs" }

\* the tokens of an architecture: the vendor's and the normalized one
NativeToken(a) == IF a = "X86" THEN N_x86 ELSE N_x64
NormalToken(a) == IF a = "X86" THEN N_x86 ELSE N_x86_64

DestToken(a) == IF config.preserve_ms_arch_notation THEN NativeToken(a) ELSE NormalToken(a)

OneCoreSegment(v) == IF v = "OneCore" THEN <<N_onecore>> ELSE <<>>

\* the source and destination of the mapping of task w are lib and crt/lib
\* followed by the segments segs and the architecture tokens
CrtPathsAre(w, segs) ==
    /\ MappingOf(w).src = <<items[w[1]].payload.filename, N_lib>> \o segs
                              \o <<NativeToken(items[w[1]].payload.target_arch)>>
    /\ MappingOf(w).target = <<N_crt, N_lib>> \o segs
                                 \o <<DestToken(items[w[1]].payload.target_arch)>>

(***************************************************************************)
(* C15, as stated. The mapping of a CrtLibs payload has source             *)
(* lib[/spectre][/onecore]/<arch> and destination                          *)
(* crt/lib[/spectre][/onecore]/<arch>, with spectre whenever Spectre is    *)
(* requested, onecore for the OneCore variant, the vendor token in the     *)
(* source and the vendor token in the destination iff                      *)
(* preserve_ms_arch_notation.                                              *)
(***************************************************************************)
C15_SpectreWhenever ==
    \A w \in CrtTasks :
        CrtPathsAre(w, (IF "Spectre" \in variants THEN <<N_spectre>> ELSE <<>>)
                           \o OneCoreSegment(wk[w].variant))

(***************************************************************************)
(* C15, amended. As above, but the spectre segment is inserted only for    *)
(* the Desktop and OneCore variants: the Store variant has no segment      *)
(* between lib and the architecture, whatever is requested.                *)
(***************************************************************************)
C15_SpectreUnlessStore ==
    \A w \in CrtTasks :
        CrtPathsAre(w, (IF "Spectre" \in variants /\ wk[w].variant # "Store"
                        THEN <<N_spectre>> ELSE <<>>)
                           \o OneCoreSegment(wk[w].variant))

\* a OneCore payload for x86_64 with Spectre requested has been placed under
\* crt/lib/spectre/onecore/x86_64
C15_Witness ==
    \E w \in CrtTasks :
        /\ Done(w)
        /\ wk[w].variant = "OneCore"
        /\ "Spectre" \in variants
        /\ ~config.preserve_ms_arch_notation
        /\ IsFile(fs, <<N_crt, N_lib, N_spectre, N_onecore, N_x86_64, N_msvcrt_lib>>)
        /\ fs[<<N_crt, N_lib, N_spectre, N_onecore, N_x86_64, N_msvcrt_lib>>].from
               = <<N_p1, N_lib, N_spectre, N_onecore, N_x64, N_msvcrt_lib>>

\* a Store payload with Spectre requested has been placed under crt/lib/x64
C15_WitnessStore ==
    \E w \in CrtTasks :
        /\ Done(w)
        /\ wk[w].variant = "Store"
        /\ "Spectre" \in variants
        /\ config.preserve_ms_arch_notation
        /\ IsFile(fs, <<N_crt, N_lib, N_x64, N_msvcrt_lib>>)

\* the staged tree of item i has the directory
Has(i, path) == Subtree(items[i].tree, path).found

\* what the resolver needs of item i is missing
MissingInput(i) ==
    LET p == items[i].payload
    IN  CASE p.kind = "CrtLibs" ->
               \/ p.variant = "None"
               \/ p.target_arch = "None"
               \/ ~Has(i, <<N_lib>>
                          \o (IF "Spectre" \in variants /\ p.variant # "Store"
                              THEN <<N_spectre>> ELSE <<>>)
                          \o OneCoreSegment(p.variant)
                          \o <<NativeToken(p.target_arch)>>)
          [] p.kind = "SdkLibs" ->
               p.target_arch = "None" \/ ~Has(i, <<N_lib, N_um, NativeToken(p.target_arch)>>)
          [] p.kind = "SdkStoreLibs" ->
               \E a \in arches : ~Has(i, <<N_lib, N_um, NativeToken(a)>>)
          [] p.kind = "Ucrt" ->
               \/ ~Has(i, <<N_include, N_ucrt>>)
               \/ \E a \in arches : ~Has(i, <<N_lib, N_ucrt, NativeToken(a)>>)
          [] OTHER -> ~Has(i, <<N_include>>)

\* nothing in the destination, the registry or the histories is of item i
Untouched(i) ==
    /\ TasksOf(i) = {}
    /\ progress[i] = [length |-> 0, pos |-> 0, finished |-> FALSE]
    /\ \A x \in xfers : x.w[1] # i
    /\ \A g \in granted : g.w[1] # i
    /\ \A q \in DOMAIN fs : IsFile(fs, q) => fs[q].from[1] # items[i].payload.filename
    /\ Len(items) = 1 => (fs = FreshRoots /\ sdk_files = <<>> /\ srcGone = {})

(***************************************************************************)
(* C17. When a subtree the resolver expects is absent (for the one mapping *)
(* or for any architecture of an SdkStoreLibs or Ucrt fan-out) or a        *)
(* CrtLibs or SdkLibs payload has no variant or architecture, the splat    *)
(* call returns an error, and a call that has returned an error created no *)
(* task, no directory, no file, no registry entry and left the progress    *)
(* counter as it was.                                                      *)
(***************************************************************************)
C17_ResolveFailureTouchesNothing ==
    \A i \in DOMAIN ipc :
        /\ (ipc[i] # "start" /\ MissingInput(i)) => ipc[i] = "error"
        /\ ipc[i] = "error" => (MissingInput(i) /\ Untouched(i))

\* a Ucrt payload has its include directory and the libraries of x64 but not
\* those of the requested x86: the call has returned the error
C17_Witness ==
    \E i \in DOMAIN ipc :
        /\ ipc[i] = "error"
        /\ items[i].payload.kind = "Ucrt"
        /\ Has(i, <<N_include, N_ucrt>>)
        /\ Has(i, <<N_lib, N_ucrt, N_x64>>)
        /\ ~Has(i, <<N_lib, N_ucrt, N_x86>>)
        /\ "X86" \in arches

\* a CrtLibs payload without an architecture: the call has returned the error
C17_WitnessNoArch ==
    \E i \in DOMAIN ipc :
        /\ ipc[i] = "error"
        /\ items[i].payload.kind = "CrtLibs"
        /\ items[i].payload.variant # "None"
        /\ items[i].payload.target_arch = "None"

(***************************************************************************)
(* The debug-library suffixes.                                             *)
(***************************************************************************)
\* the files with the extension .lib a filtering task without
\* include_debug_libs has come to when it ended without error
FilteredLibs ==
    UNION { { e \in VisitedEntries(MappingOf(w)) : HasExtension(e.name, N__lib) } :
              w \in { t \in DOMAIN wk :
                        /\ Done(t)
                        /\ wk[t].kind \in {"CrtLibs", "Ucrt"}
                        /\ ~config.include_debug_libs } }

LibBaseName(name) == SubSeq(name, 1, Len(name) - 4)

\* the digits 0..9 as characters
Digits == 48..57

\* the base name ends in d and then one or more decimal digits
RECURSIVE EndsInDThenDigits(_)
EndsInDThenDigits(base) ==
    /\ Len(base) >= 2
    /\ base[Len(base)] \in Digits
    /\ \/ base[Len(base) - 1] = 100
       \/ EndsInDThenDigits(SubSeq(base, 1, Len(base) - 1))

EndsIn(base, suffix) ==
    /\ Len(base) >= Len(suffix)
    /\ SubSeq(base, Len(base) - Len(suffix) + 1, Len(base)) = suffix

(***************************************************************************)
(* C19, as stated. Without include_debug_libs, a .lib file of a CrtLibs or *)
(* Ucrt mapping is skipped when its base name ends in d, in d_netcore, or  *)
(* in d and a numeric suffix of one or more digits (such as d140), and is  *)
(* placed otherwise.                                                       *)
(***************************************************************************)
C19_SkipsVersionedSuffix ==
    \A e \in FilteredLibs :
        ~IsPlaced(e) <=>
            \/ EndsIn(LibBaseName(e.name), N_d)
            \/ EndsIn(LibBaseName(e.name), N_d_netcore)
            \/ EndsInDThenDigits(LibBaseName(e.name))

(***************************************************************************)
(* C19, amended. Without include_debug_libs, a .lib file of a CrtLibs or   *)
(* Ucrt mapping is skipped when its base name ends in d, in d_netcore, or  *)
(* in d and exactly one decimal digit, and is placed otherwise: a name     *)
(* with d and several digits, such as msvcd140.lib, is placed.             *)
(***************************************************************************)
C19_SkipsOneDigitSuffix ==
    \A e \in FilteredLibs :
        ~IsPlaced(e) <=>
            \/ EndsIn(LibBaseName(e.name), N_d)
            \/ EndsIn(LibBaseName(e.name), N_d_netcore)
            \/ /\ Len(LibBaseName(e.name)) >= 2
               /\ LibBaseName(e.name)[Len(LibBaseName(e.name))] \in Digits
               /\ LibBaseName(e.name)[Len(LibBaseName(e.name)) - 1] = 100

\* a directory with libcpmtd1.lib and msvcd140.lib has been gone through:
\* the first was skipped and the second placed
C19_Witness ==
    /\ \E e \in FilteredLibs : e.name = N_libcpmtd1_lib /\ ~IsPlaced(e)
    /\ \E e \in FilteredLibs : e.name = N_msvcd140_lib /\ IsPlaced(e)

(***************************************************************************)
(* Failing operations.                                                     *)
(***************************************************************************)
HasFailed(w) == wk[w].pc = "failed"

\* the splat call of item i has returned Ok(())
ReturnedOk(i) == ipc[i] = "ok"

(***************************************************************************)
(* C11. When a directory creation, a copy, a move or a symlink creation    *)
(* has failed in a task of a splat call, the call does not return Ok(()).  *)
(***************************************************************************)
C11_FailureSurfaces ==
    \A i \in DOMAIN ipc : ReturnedOk(i) => \A w \in TasksOf(i) : ~HasFailed(w)

\* every placement has ended
PlacementEnded == \A i \in DOMAIN ipc : ipc[i] \in {"ok", "error"}

(***************************************************************************)
(* C18. Once placement has ended, every path in the registry is the        *)
(* destination of a transfer that completed.                               *)
(***************************************************************************)
C18_RegistryOnlyWritten ==
    PlacementEnded =>
        \A h \in DOMAIN sdk_files :
            /\ IsFile(fs, sdk_files[h])
            /\ \E x \in xfers : x.tar = sdk_files[h]

\* an operation of the operating system fails somewhere in the subtree the
\* mapping of task w is placed in
FaultInside(w) == \E q \in faulty : HasPrefix(q, MappingOf(w).target)

\* the files task w is to write: those the filter lets through, for headers
\* those whose name no other file has registered
Qualifying(w) ==
    { e \in VisitedEntries(MappingOf(w)) :
        /\ PassesFilter(wk[w].kind, e.name)
        /\ wk[w].kind = "SdkHeaders" =>
               \E g \in granted : g.w = w /\ g.tar = e.tar /\ g.name = e.name }

\* a task that has failed stays as it is and transfers nothing more
StaysStopped ==
    \A w \in DOMAIN wk :
        HasFailed(w) =>
            /\ wk'[w] = wk[w]
            /\ { x \in xfers' : x.w = w } = { x \in xfers : x.w = w }

\* a task fails only through an operation of its own mapping; a call returns
\* when each of its tasks has ended, and a task that has ended without error
\* has placed all its qualifying files
OthersUnaffected ==
    /\ \A w \in DOMAIN wk : HasFailed(w) => FaultInside(w)
    /\ \A w \in DOMAIN wk : Done(w) => \A e \in Qualifying(w) : IsPlaced(e)
    /\ \A i \in DOMAIN ipc :
          ReturnedOk(i) =>
              \A w \in TasksOf(i) :
                  /\ wk[w].pc \in {"done", "failed"}
                  /\ ~FaultInside(w) => Done(w)

(***************************************************************************)
(* C20. A task in which an operation has failed stops at once: it takes no *)
(* further step and transfers no further file. The other tasks of the same *)
(* splat call are not failed by it: each one whose own operations succeed  *)
(* has run to its end and placed all its qualifying files when the call    *)
(* returns, under every interleaving.                                      *)
(***************************************************************************)
C20_FailureIsLocal == [](OthersUnaffected) /\ [][StaysStopped]_vars

\* a Ucrt call has returned: the task of one architecture failed before its
\* second file, the tasks of the headers and of the other architecture ended
\* with all their files placed
C20_Witness ==
    \E i \in DOMAIN ipc :
        /\ ReturnedOk(i)
        /\ items[i].payload.kind = "Ucrt"
        /\ \E w \in TasksOf(i) :
              /\ HasFailed(w)
              /\ \E e \in VisitedEntries(MappingOf(w)) : ~IsPlaced(e)
              /\ \A v \in TasksOf(i) \ {w} :
                    /\ Done(v)
                    /\ VisitedEntries(MappingOf(v)) # {}
                    /\ \A e \in VisitedEntries(MappingOf(v)) : IsPlaced(e)

C14_OneWriterPerPath ==
    /\ \A x1, x2 \in xfers : x1.tar = x2.tar => x1.w = x2.w
    /\ \A w1, w2 \in DOMAIN wk :
          (w1 # w2 /\ wk[w1].kind # "SdkHeaders" /\ wk[w2].kind # "SdkHeaders")
              => MappingOf(w1).target # MappingOf(w2).target

(***************************************************************************)
(* Root preparation and repeated runs.                                     *)
(***************************************************************************)
\* no splat call of the run has started
NothingPlaced == \A i \in DOMAIN ipc : ipc[i] = "start"

(***************************************************************************)
(* C13. Whatever the output directory held, when prep_splat has returned   *)
(* the roots, crt and sdk exist, are directories and are empty; when a     *)
(* deletion or a creation has failed, prep_splat has returned an error and *)
(* no roots, and no placement starts.                                      *)
(***************************************************************************)
C13_FreshEmptyRoots ==
    /\ prep.roots <=> prep.pc = "done"
    /\ (prep.pc = "done" /\ NothingPlaced) =>
          /\ DOMAIN fs = {<<N_crt>>, <<N_sdk>>}
          /\ IsDir(fs, <<N_crt>>)
          /\ IsDir(fs, <<N_sdk>>)
    /\ prep.pc = "failed" => (~prep.roots /\ prep.error # "none" /\ NothingPlaced)
    /\ prep.error # "none" => prep.pc = "failed"
    /\ (prep.pc \in {"create_sdk", "done"} /\ NothingPlaced) =>
          (IoOk(<<N_crt>>) /\ Below(fs, <<N_crt>>) = {<<N_crt>>})

\* the roots have been returned over the headers and symlinks of a run that
\* went before
C13_Witness ==
    /\ prep.pc = "done"
    /\ prep.roots
    /\ NothingPlaced
    /\ prep.run = 2
    /\ \E q \in DOMAIN prep.first : IsFile(prep.first, q)
    /\ \E q \in DOMAIN prep.first : IsLink(prep.first, q)
    /\ fs = FreshRoots

\* the deletion of crt has failed half way: the error is returned and a part
\* of the earlier contents is left
C13_WitnessFailure ==
    /\ prep.pc = "failed"
    /\ prep.error = "unable to delete"
    /\ IsFile(fs, <<N_crt, N_lib, N_msvcrt_lib>>)
    /\ <<N_crt, N_lib, N_MSVCRT_lib>> \notin DOMAIN fs

(***************************************************************************)
(* C12. When the program has been run twice on the same inputs, each run   *)
(* preparing the roots and placing and finalizing without error, the       *)
(* destination after the second run is the destination after the first:    *)
(* the same files with the same contents under the same names and the same *)
(* symlinks.                                                               *)
(***************************************************************************)
C12_SameTreeTwice ==
    (/\ prep.run = 2
     /\ prep.pc = "done"
     /\ fin.pc = "done"
     /\ \A w \in DOMAIN wk : wk[w].pc = "done")
        => fs = prep.first


\* the symlinks the names still in the working set ask for
PendingLinks ==
    { r \in { IncludeLink(sdk_files, include) : include \in fin.includes } :
        r.link # <<>> }

\* the link loop runs over a registry every entry of which was written by a
\* placement that ended without error
LinkingAfterCleanPlacement ==
    /\ fin.pc = "link"
    /\ AllPlaced
    /\ \A h \in DOMAIN sdk_files : IsFile(fs, sdk_files[h])

(***************************************************************************)
(* C21. After an error-free placement into fresh roots, no symlink the     *)
(* include-repair loop is about to create has a path that is occupied in   *)
(* the destination: none can fail with "already exists".                   *)
(***************************************************************************)
C21_LinkPathsFree ==
    LinkingAfterCleanPlacement => \A r \in PendingLinks : r.link \notin DOMAIN fs

\* what does hold: a pending link path is no registered header, no link the
\* pass has made, and is occupied only by what the registry does not
\* hold, a directory or the file of a payload of another kind
C21_LinkPathsMissRegistry ==
    LinkingAfterCleanPlacement =>
        \A r \in PendingLinks :
            /\ \A h \in DOMAIN sdk_files : sdk_files[h] # r.link
            /\ r.link \notin fin.linked
            /\ r.link \in DOMAIN fs =>
                  \/ IsDir(fs, r.link)
                  \/ /\ IsFile(fs, r.link)
                     /\ \A g \in granted : g.tar # r.link

\* Sub is registered in um, another payload has made the directory um/sub,
\* and the seed sub asks for the symlink um/sub
C21_WitnessDirectory ==
    /\ LinkingAfterCleanPlacement
    /\ \E r \in PendingLinks :
          /\ r.link = <<N_sdk, N_include, N_um, N_sub>>
          /\ IsDir(fs, r.link)

\* Stdio.h is registered in ucrt, the Ucrt payload has placed stdio.h there,
\* and the seed stdio.h asks for the symlink ucrt/stdio.h
C21_WitnessUcrt ==
    /\ LinkingAfterCleanPlacement
    /\ \E r \in PendingLinks :
          /\ r.link = <<N_sdk, N_include, N_ucrt, N_stdio_h>>
          /\ IsFile(fs, r.link)

\* the pass has failed at such a symlink
C21_WitnessFailed ==
    /\ fin.pc = "failed"
    /\ fin.error = "unable to symlink"
    /\ AllPlaced
    /\ fin.includes # {}

\* the pass has linked every name and ended
C21_WitnessLinked ==
    /\ fin.pc = "done"
    /\ AllPlaced
    /\ fin.linked # {}

====
